---- MODULE Spec2Model ----
(***************************************************************************)
(* Model of the incremental sync engine (generateEmbeddings) of the        *)
(* obsidian-ai-tools plugin: the vault, the record store (document and     *)
(* document_section tables), the embedding provider and the plugin         *)
(* settings that feed the sync.                                            *)
(***************************************************************************)
EXTENDS Integers, Sequences, FiniteSets, TLC

\* ------------------------------------------------------------------------
\* Bounds of the model
\* ------------------------------------------------------------------------

\* number of sync passes that may be started
MaxPasses == 2

\* number of edits of the vault / the settings between passes
MaxEdits == 1

\* number of store / provider / file-read calls that may fail
MaxFailures == 2

\* ------------------------------------------------------------------------
\* Strings are sequences of one-character strings
\* ------------------------------------------------------------------------

Last(s) == s[Len(s)]

\* String.prototype.startsWith
startsWith(s, prefix) ==
    /\ Len(prefix) <= Len(s)
    /\ SubSeq(s, 1, Len(prefix)) = prefix

\* String.prototype.split(sep) for a one-character separator
RECURSIVE splitFrom(_, _, _, _)
splitFrom(s, sep, k, cur) ==
    IF k > Len(s) THEN <<cur>>
    ELSE IF s[k] = sep THEN <<cur>> \o splitFrom(s, sep, k + 1, <<>>)
    ELSE splitFrom(s, sep, k + 1, Append(cur, s[k]))

split(s, sep) == splitFrom(s, sep, 1, <<>>)

\* String.prototype.trim
RECURSIVE trimStart(_)
trimStart(s) ==
    IF s # <<>> /\ Head(s) = " " THEN trimStart(Tail(s)) ELSE s

RECURSIVE trimEnd(_)
trimEnd(s) ==
    IF s # <<>> /\ Last(s) = " " THEN trimEnd(SubSeq(s, 1, Len(s) - 1)) ELSE s

trim(s) == trimEnd(trimStart(s))

\* \s of a regular expression, over the characters of the model
isWhitespace(ch) == ch \in {" ", "\n"}

\* oneLine of common-tags: every run of a newline and the whitespace after it
\* becomes one space, then the ends are trimmed
RECURSIVE skipWhitespace(_, _)
skipWhitespace(s, k) ==
    IF k <= Len(s) /\ isWhitespace(s[k]) THEN skipWhitespace(s, k + 1) ELSE k

RECURSIVE replaceNewlines(_, _)
replaceNewlines(s, k) ==
    IF k > Len(s) THEN <<>>
    ELSE IF s[k] = "\n"
    THEN <<" ">> \o replaceNewlines(s, skipWhitespace(s, k + 1))
    ELSE <<s[k]>> \o replaceNewlines(s, k + 1)

RECURSIVE trimWhitespace(_)
trimWhitespace(s) ==
    IF s # <<>> /\ isWhitespace(Head(s)) THEN trimWhitespace(Tail(s))
    ELSE IF s # <<>> /\ isWhitespace(Last(s))
    THEN trimWhitespace(SubSeq(s, 1, Len(s) - 1))
    ELSE s

oneLine(value) == trimWhitespace(replaceNewlines(value, 1))

\* Array.prototype.join(sep)
RECURSIVE join(_, _)
join(parts, sep) ==
    IF parts = <<>> THEN <<>>
    ELSE IF Len(parts) = 1 THEN parts[1]
    ELSE parts[1] \o <<sep>> \o join(Tail(parts), sep)

\* node's posix normalizeString: drops empty and "." segments, resolves ".."
RECURSIVE normalizeSegments(_, _, _)
normalizeSegments(segs, res, allowAboveRoot) ==
    IF segs = <<>> THEN res
    ELSE LET seg == Head(segs) rest == Tail(segs) IN
         IF seg = <<>> \/ seg = <<".">>
         THEN normalizeSegments(rest, res, allowAboveRoot)
         ELSE IF seg = <<".", ".">>
         THEN IF res # <<>> /\ Last(res) # <<".", ".">>
              THEN normalizeSegments(rest, SubSeq(res, 1, Len(res) - 1), allowAboveRoot)
              ELSE IF allowAboveRoot
              THEN normalizeSegments(rest, Append(res, seg), allowAboveRoot)
              ELSE normalizeSegments(rest, res, allowAboveRoot)
         ELSE normalizeSegments(rest, Append(res, seg), allowAboveRoot)

\* path.normalize (posix)
normalize(p) ==
    IF Len(p) = 0 THEN <<".">>
    ELSE LET isAbsolute == p[1] = "/"
             trailingSeparator == Last(p) = "/"
             body == join(normalizeSegments(split(p, "/"), <<>>, ~isAbsolute), "/")
         IN  IF body = <<>>
             THEN IF isAbsolute THEN <<"/">>
                  ELSE IF trailingSeparator THEN <<".", "/">> ELSE <<".">>
             ELSE LET withSep == IF trailingSeparator THEN Append(body, "/") ELSE body
                  IN  IF isAbsolute THEN <<"/">> \o withSep ELSE withSep

\* A directory list matches a file when the normalized file path starts with
\* one of the normalized directories.
isFileInDirectoriesExact(filePath, directories) ==
    \E k \in 1..Len(directories) :
        normalize(filePath) = normalize(directories[k])

isFileInDirectories(filePath, directories) ==
    \E k \in 1..Len(directories) :
        startsWith(normalize(filePath), normalize(directories[k]))

\* ------------------------------------------------------------------------
\* Vault contents: a markdown text is a sequence of lines
\* ------------------------------------------------------------------------

Paths == { <<"P", "/", "n">>, <<"X", "/", "s">> }

\* order in which the vault lists its markdown files
PathOrder == << <<"P", "/", "n">>, <<"X", "/", "s">> >>

TextA == << "---", "tag: a", "---", "pa", "", "pb" >>
TextB == << "---", "tag: b", "---", "pa", "", "pb" >>
TextC == << "pc" >>

AllTexts == << TextA, TextB, TextC >>

Texts == { AllTexts[n] : n \in 1..Len(AllTexts) }

\* characters of a line of body text
LineLen(line) ==
    CASE line = "pa" -> 250
      [] line = "pb" -> 300
      [] line = "pc" -> 50
      [] OTHER -> 0

\* createHash("sha256").update(markdown).digest("base64"): collision free on
\* the texts of the model
createHash(markdown) ==
    CHOOSE n \in 1..Len(AllTexts) : AllTexts[n] = markdown

\* checksum of a Document whose indexing is incomplete
NullChecksum == 0

\* index of the line closing the front matter block, 0 when there is none
RECURSIVE closingFence(_, _)
closingFence(lines, k) ==
    IF k > Len(lines) THEN 0
    ELSE IF lines[k] = "---" THEN k
    ELSE closingFence(lines, k + 1)

\* parseMarkdown: front matter is a leading block fenced by "---" lines; a
\* text without a well formed block has no front matter and is all content
parseMarkdown(markdown) ==
    LET close == IF markdown # <<>> /\ markdown[1] = "---"
                 THEN closingFence(markdown, 2) ELSE 0
    IN  IF close = 0
        THEN [content |-> markdown, frontmatter |-> <<>>]
        ELSE [content |-> SubSeq(markdown, close + 1, Len(markdown)),
              frontmatter |-> SubSeq(markdown, 2, close - 1)]

\* blank-line delimited paragraphs of the content, each a span
\* [line, from, to) of characters
RECURSIVE paragraphsOf(_)
paragraphsOf(content) ==
    IF content = <<>> THEN <<>>
    ELSE IF Head(content) = "" THEN paragraphsOf(Tail(content))
    ELSE << [line |-> Head(content), from |-> 0, to |-> LineLen(Head(content))] >>
         \o paragraphsOf(Tail(content))

SpanLen(span) == span.to - span.from

RECURSIVE ChunkLen(_)
ChunkLen(chunk) ==
    IF chunk = <<>> THEN 0 ELSE SpanLen(Head(chunk)) + ChunkLen(Tail(chunk))

\* a paragraph longer than maxSize is cut into pieces of at most maxSize
RECURSIVE hardSplit(_, _)
hardSplit(span, maxSize) ==
    IF SpanLen(span) <= maxSize THEN << <<span>> >>
    ELSE << << [span EXCEPT !.to = span.from + maxSize] >> >>
         \o hardSplit([span EXCEPT !.from = span.from + maxSize], maxSize)

RECURSIVE chunkFrom(_, _, _, _)
chunkFrom(pars, buffer, minSize, maxSize) ==
    IF pars = <<>>
    THEN IF buffer = <<>> THEN <<>> ELSE <<buffer>>
    ELSE LET p == Head(pars) rest == Tail(pars) IN
         IF SpanLen(p) > maxSize
         THEN (IF buffer = <<>> THEN <<>> ELSE <<buffer>>)
              \o hardSplit(p, maxSize)
              \o chunkFrom(rest, <<>>, minSize, maxSize)
         ELSE IF ChunkLen(buffer) + SpanLen(p) > maxSize
         THEN <<buffer>> \o chunkFrom(pars, <<>>, minSize, maxSize)
         ELSE IF ChunkLen(buffer) + SpanLen(p) >= minSize
         THEN << Append(buffer, p) >> \o chunkFrom(rest, <<>>, minSize, maxSize)
         ELSE chunkFrom(rest, Append(buffer, p), minSize, maxSize)

\* smartChunkParagraphs(content, {minParagraphSize, maxParagraphSize})
smartChunkParagraphs(content, minSize, maxSize) ==
    chunkFrom(paragraphsOf(content), <<>>, minSize, maxSize)

\* config.ts; a field the object does not define reads as undefined
config ==
    [embeddingModel |-> "text-embedding-3-small",
     chatModel |-> "gpt-4o-mini",
     minParagraphSize |-> 200,
     maxParagraphSize |-> 600,
     minLengthBeforeAutoSearch |-> 10]

Undefined == "undefined"

configGet(field) ==
    IF field \in DOMAIN config THEN config[field] ELSE Undefined

\* the sections generateEmbeddings derives from a raw text
SectionsOf(markdown) ==
    smartChunkParagraphs(parseMarkdown(markdown).content,
                         configGet("minParagraphSize"),
                         configGet("maxParagraphSize"))

\* String.prototype.slice(start) on a chunk: the characters from offset start
RECURSIVE sliceFrom(_, _)
sliceFrom(chunk, start) ==
    IF chunk = <<>> THEN <<>>
    ELSE IF start >= SpanLen(Head(chunk))
    THEN sliceFrom(Tail(chunk), start - SpanLen(Head(chunk)))
    ELSE << [Head(chunk) EXCEPT !.from = Head(chunk).from + start] >> \o Tail(chunk)

\* config.<field> > n and n > config.<field>: both are false for a field
\* that reads as undefined
configGreater(field, n) ==
    IF field \in DOMAIN config THEN config[field] > n ELSE FALSE

greaterThanConfig(n, field) ==
    IF field \in DOMAIN config THEN n > config[field] ELSE FALSE

\* the context taken from the previous section for section i (1-based)
\* without the two tests on config.charsFromPreviousParagraph: slice with
\* an offset that is not a number returns the whole previous section
previousSectionChoppedUnguarded(sections, i) ==
    IF i > 1 THEN sections[i - 1] ELSE <<>>

\* the context taken from the previous section for section i (1-based)
previousSectionChopped(sections, i) ==
    IF /\ i > 1
       /\ configGreater("charsFromPreviousParagraph", 0)
       /\ greaterThanConfig(ChunkLen(sections[i - 1]),
                            "charsFromPreviousParagraph")
    THEN sliceFrom(sections[i - 1],
                   ChunkLen(sections[i - 1])
                      - config["charsFromPreviousParagraph"])
    ELSE <<>>

\* createChunkContext(section, frontmatter, path, previousSectionChopped):
\* the text sent to the embedding provider
createChunkContext(section, frontmatter, filePath, precedingTail) ==
    [header |-> [frontmatter |-> frontmatter, path |-> filePath],
     precedingTail |-> precedingTail,
     chunk |-> section]

\* the provider's answer to createEmbedding for an input
EmbeddingOf(input) ==
    [total_tokens |-> ChunkLen(input.precedingTail) + ChunkLen(input.chunk),
     embedding |-> input]

\* ------------------------------------------------------------------------
\* State
\* ------------------------------------------------------------------------

VARIABLES
    vault,             \* path of each markdown file of the vault -> its text
    settings,          \* excludedDirsList and publicDirsList of the plugin
    document,          \* rows of the store's document table
    document_section,  \* rows of the store's document_section table, in insertion order
    nextId,            \* next identity the store assigns to a document row
    run,               \* the local state of each generateEmbeddings call
    passes,            \* sync passes started so far
    edits,             \* vault / settings edits so far
    failures,          \* calls that have failed so far
    stable             \* the last finished pass had no failed call and nothing was edited since

VARIABLES
    creds,             \* supabaseUrl, supabaseKey and openaiKey of the settings
    supabaseClient,    \* the plugin's store client, or NoSupabaseClient
    openai,            \* the plugin's provider client, or NoOpenai
    saving,            \* the credential handlers that wait for saveSettings
    credChanges,       \* credential changes so far
    modal,             \* the search modal
    searches,          \* the getSuggestionsInternal calls made so far
    onLayoutReady,     \* the startup indexing callback: none, registered, called
    chopped            \* the last computation of a preceding tail

uiVars == <<creds, supabaseClient, openai, saving, credChanges, modal, searches>>

vars == <<vault, settings, document, document_section, nextId, run,
          passes, edits, failures, stable,
          creds, supabaseClient, openai, saving, credChanges, modal, searches,
          onLayoutReady, chopped>>

Runs == {1, 2}

NoDoc == [id |-> 0, path |-> <<>>, checksum |-> NullChecksum, public |-> FALSE,
          meta |-> [frontmatter |-> <<>>, path |-> <<>>]]

NoResponse == [total_tokens |-> 0, embedding |-> <<>>]

ZeroCalls == [p \in Paths |-> 0]

\* const embeddingResult = {successCount: 0, updatedCount: 0, errorCount: 0, deleteCount: 0}
NewEmbeddingResult ==
    [successCount |-> 0, updatedCount |-> 0, errorCount |-> 0, deleteCount |-> 0]

IdleRun ==
    [pc |-> "idle",
     files |-> <<>>, excludeDirs |-> <<>>, publicDirs |-> <<>>,
     k |-> 0,
     existingDocument |-> NoDoc, markdown |-> <<>>, checksum |-> NullChecksum,
     isPublic |-> FALSE, sections |-> <<>>, frontmatter |-> <<>>,
     documentId |-> 0, i |-> 0, response |-> NoResponse,
     dangling |-> <<>>,
     embeddingResult |-> NewEmbeddingResult,
     \* history of the pass
     started |-> ZeroCalls, lookups |-> ZeroCalls, embeds |-> ZeroCalls,
     writes |-> ZeroCalls, outcome |-> [p \in Paths |-> "none"],
     failedAt |-> [p \in Paths |-> "none"],
     dropped |-> ZeroCalls,
     scanned |-> FALSE, failedCalls |-> 0, reconFailures |-> 0,
     wasStable |-> FALSE, edited |-> FALSE]

\* the prompt of the settings that loadSettings reads
prompt == oneLine(<<"p", "r", "o", "m", "p", "t">>)

\* this.settings after loadSettings
loadSettings(excludedDirsList, publicDirsList) ==
    [excludedDirsList |-> excludedDirsList, publicDirsList |-> publicDirsList,
     prompt |-> prompt]

\* the texts to type into the directory settings
DirInputs ==
    { <<>>,
      <<"X">>,
      <<"P", "/">>,
      <<".", "/", "P", ",", " ", "X">> }

\* value.split(",").map((path) => path.trim())
dirsListOf(value) ==
    LET parts == split(value, ",") IN
    [n \in 1..Len(parts) |-> trim(parts[n])]

InitVaults ==
    { [p \in Paths |-> TextA],
      [p \in {PathOrder[1]} |-> TextC] }

\* the values a credential field of the settings tab may hold
CredValues == {"", "k"}

\* DEFAULT_SETTINGS: no credentials
NoCreds == [supabaseUrl |-> "", supabaseKey |-> "", openaiKey |-> ""]

SavedCreds == [supabaseUrl |-> "k", supabaseKey |-> "k", openaiKey |-> "k"]

\* this.supabaseClient = null / this.openai = null
NoSupabaseClient == [url |-> "", key |-> ""]
NoOpenai == [apiKey |-> ""]

\* setupSupabase: the client exists iff the URL and the key are both set
setupSupabase(c) ==
    IF ~(c.supabaseUrl = "" \/ c.supabaseKey = "")
    THEN [url |-> c.supabaseUrl, key |-> c.supabaseKey]
    ELSE NoSupabaseClient

\* setupOpenai: the client exists iff the key is set
setupOpenai(c) ==
    IF ~(c.openaiKey = "") THEN [apiKey |-> c.openaiKey] ELSE NoOpenai

\* no preceding tail was computed yet
NotChopped == [sections |-> <<>>, i |-> 0, tail |-> <<>>]

\* number of modals the Search command makes
MaxModals == 2

\* number of times the user changes the text of an input of a modal
MaxTyped == 2

Modals == 1..MaxModals

\* a modal before the Search command creates it
NoModal ==
    [\* none, closed, or what the chat container shows: chat when it is
     \* displayed, search when it is hidden
     state |-> "none",
     \* the input, the answer box and the results are displayed
     promptShown |-> FALSE,
     prompt |-> <<>>,
     results |-> <<>>, searchQuery |-> <<>>,
     inputEl |-> <<>>, searchAsYouType |-> FALSE, debounced |-> <<>>,
     pending |-> FALSE,
     \* the last getSuggestionsInternal call that started no search
     declined |-> [query |-> <<>>, force |-> FALSE],
     \* the keydown listeners of the modal registered on the document
     listeners |-> {},
     chatInput |-> <<>>,
     \* history: the number of changes typed into the inputs of the modal
     typed |-> 0,
     messageHistory |-> <<>>,
     \* the generativeSearch calls of the chat
     chats |-> <<>>]

\* onload: the settings are loaded and both clients are set up
InitPlugin(loaded, indexOnOpen) ==
    /\ creds = loaded
    /\ supabaseClient = setupSupabase(loaded)
    /\ openai = setupOpenai(loaded)
    /\ saving = <<>>
    /\ credChanges = 0
    /\ modal = [m \in Modals |-> NoModal]
    /\ searches = <<>>
    /\ onLayoutReady =
          IF /\ indexOnOpen
             /\ setupSupabase(loaded) # NoSupabaseClient
             /\ setupOpenai(loaded) # NoOpenai
          THEN "registered" ELSE "none"

Init ==
    /\ InitPlugin(SavedCreds, FALSE)
    /\ chopped = NotChopped
    /\ vault \in InitVaults
    /\ settings \in { loadSettings(<<>>, <<>>),
                      loadSettings(dirsListOf(<<"X">>), dirsListOf(<<"P", "/">>)) }
    /\ document = {}
    /\ document_section = <<>>
    /\ nextId = 1
    /\ run = [r \in Runs |-> IdleRun]
    /\ passes = 0
    /\ edits = 0
    /\ failures = 0
    /\ stable = FALSE

\* ------------------------------------------------------------------------
\* The record store
\* ------------------------------------------------------------------------

\* from("document").select(...).filter("path", "eq", path).limit(1).maybeSingle()
selectDocumentByPath(filePath) ==
    IF \E d \in document : d.path = filePath
    THEN CHOOSE d \in document : d.path = filePath
    ELSE NoDoc

\* from("document").update({ public }).filter("id", "eq", id)
updatePublicResetChecksum(id, isPublic) ==
    { IF d.id = id THEN [d EXCEPT !.public = isPublic, !.checksum = NullChecksum]
      ELSE d : d \in document }

updatePublicById(id, isPublic) ==
    { IF d.id = id THEN [d EXCEPT !.public = isPublic] ELSE d : d \in document }

\* from("document_section").delete().filter("document_id", "eq", id)
deleteSectionsKeepAll(id) == document_section

deleteSectionsByDocumentId(id) ==
    SelectSeq(document_section, LAMBDA s : s.document_id # id)

\* from("document").upsert({checksum: null, path, meta, public}, {onConflict: "path"})
insertDocument(filePath, meta, isPublic) ==
    document \cup { [id |-> nextId, path |-> filePath, checksum |-> NullChecksum,
                     public |-> isPublic, meta |-> meta] }

upsertDocument(filePath, meta, isPublic) ==
    IF \E d \in document : d.path = filePath
    THEN { IF d.path = filePath
           THEN [d EXCEPT !.checksum = NullChecksum, !.meta = meta, !.public = isPublic]
           ELSE d : d \in document }
    ELSE document \cup { [id |-> nextId, path |-> filePath, checksum |-> NullChecksum,
                          public |-> isPublic, meta |-> meta] }

\* from("document_section").insert({document_id, content, token_count, embedding})
insertSection(id, section, response) ==
    Append(document_section,
           [document_id |-> id, content |-> section,
            token_count |-> response.total_tokens,
            embedding |-> response.embedding])

\* from("document").update({ checksum }).filter("id", "eq", id)
updateChecksumById(id, checksum) ==
    { IF d.id = id THEN [d EXCEPT !.checksum = checksum] ELSE d : d \in document }

\* from("document").delete().eq("path", path); the sections of a deleted
\* document go with it
deleteDocumentByPath(filePath) ==
    { d \in document : d.path # filePath }

cascadeSections(docs) ==
    SelectSeq(document_section, LAMBDA s : \E d \in docs : d.id = s.document_id)

\* from("document").select("id, path, checksum, public"): all rows, by id
RECURSIVE rowsById(_)
rowsById(rows) ==
    IF rows = {} THEN <<>>
    ELSE LET first == CHOOSE d \in rows : \A e \in rows : d.id <= e.id
         IN  <<first>> \o rowsById(rows \ {first})

selectAllDocuments == rowsById(document)

\* ------------------------------------------------------------------------
\* generateEmbeddings
\* ------------------------------------------------------------------------

\* this.app.vault.getMarkdownFiles()
getMarkdownFiles == SelectSeq(PathOrder, LAMBDA p : p \in DOMAIN vault)

\* .filter((file) => !isFileInDirectories(file.path, excludeDirs))
liveFilesUnfiltered(excludeDirs) == getMarkdownFiles

liveFiles(excludeDirs) ==
    SelectSeq(getMarkdownFiles, LAMBDA p : ~isFileInDirectories(p, excludeDirs))

Range(seq) == { seq[n] : n \in 1..Len(seq) }

currentFile(rr) == rr.files[rr.k]

bump(calls, filePath) == [calls EXCEPT ![filePath] = @ + 1]

\* the loop moves on to the next file, or to the reconciliation
nextFile(rr) ==
    [rr EXCEPT !.k = rr.k + 1,
               !.pc = IF rr.k + 1 > Len(rr.files) THEN "scan" ELSE "fetch",
               !.existingDocument = NoDoc, !.markdown = <<>>,
               !.checksum = NullChecksum, !.isPublic = FALSE,
               !.sections = <<>>, !.frontmatter = <<>>,
               !.documentId = 0, !.i = 0, !.response = NoResponse]

countSuccessAsUpdate(result) ==
    [result EXCEPT !.successCount = @ + 1, !.updatedCount = @ + 1]

countSuccess(result) == [result EXCEPT !.successCount = @ + 1]

countUpdatedOnly(result) == [result EXCEPT !.updatedCount = @ + 1]

countUpdate(result) ==
    [result EXCEPT !.successCount = @ + 1, !.updatedCount = @ + 1]

countError(result) == [result EXCEPT !.errorCount = @ + 1]

countDelete(result) == [result EXCEPT !.deleteCount = @ + 1]

\* the catch block of the per-file try
failFast(rr, step) ==
    [rr EXCEPT !.pc = "done",
               !.embeddingResult = countError(rr.embeddingResult),
               !.outcome[currentFile(rr)] = "error",
               !.failedAt[currentFile(rr)] = step,
               !.failedCalls = @ + 1]

caughtGoesOnWithSections(rr, step) ==
    IF step \in {"embed", "insert"} /\ rr.i < Len(rr.sections)
    THEN [rr EXCEPT !.i = rr.i + 1, !.response = NoResponse, !.pc = "embed",
                    !.embeddingResult = countError(rr.embeddingResult),
                    !.outcome[currentFile(rr)] = "error",
                    !.failedAt[currentFile(rr)] = step,
                    !.failedCalls = @ + 1]
    ELSE [nextFile(rr) EXCEPT !.embeddingResult = countError(rr.embeddingResult),
                              !.outcome[currentFile(rr)] = "error",
                              !.failedAt[currentFile(rr)] = step,
                              !.failedCalls = @ + 1]

rethrown(rr, step) == [rr EXCEPT !.pc = "thrown", !.failedCalls = @ + 1]

caught(rr, step) ==
    [nextFile(rr) EXCEPT !.embeddingResult = countError(rr.embeddingResult),
                         !.outcome[currentFile(rr)] = "error",
                         !.failedAt[currentFile(rr)] = step,
                         !.failedCalls = @ + 1]

CanFail == failures < MaxFailures

\* generateEmbeddings is called: the file list and the counters are set up
Start(r) ==
    /\ run[r].pc = "idle"
    /\ passes < MaxPasses
    /\ LET files == liveFiles(settings.excludedDirsList) IN
       run' = [run EXCEPT ![r] =
                  [IdleRun EXCEPT !.pc = IF files = <<>> THEN "scan" ELSE "fetch",
                                  !.files = files,
                                  !.excludeDirs = settings.excludedDirsList,
                                  !.publicDirs = settings.publicDirsList,
                                  !.k = 1,
                                  !.wasStable = stable]]
    /\ passes' = passes + 1
    /\ UNCHANGED <<vault, settings, document, document_section, nextId,
                   edits, failures, stable>>
    /\ UNCHANGED uiVars

\* the lookup of the file's Document row
FetchDocument(r) ==
    LET rr == run[r]
        f == currentFile(rr)
        asked == [rr EXCEPT !.started = bump(rr.started, f),
                            !.lookups = bump(rr.lookups, f)]
    IN
    /\ rr.pc = "fetch"
    /\ \/ /\ run' = [run EXCEPT ![r] =
                        [asked EXCEPT !.pc = "read",
                                      !.existingDocument = selectDocumentByPath(f)]]
          /\ UNCHANGED failures
       \/ /\ CanFail
          /\ run' = [run EXCEPT ![r] = caught(asked, "fetch")]
          /\ failures' = failures + 1
    /\ UNCHANGED <<vault, settings, document, document_section, nextId,
                   passes, edits, stable>>
    /\ UNCHANGED <<uiVars, onLayoutReady, chopped>>

\* existingDocument?.checksum === checksum
checksumMatchesNever(existingDocument, checksum) == FALSE

checksumMatchesOnBody(existingDocument, checksum) ==
    /\ existingDocument # NoDoc
    /\ existingDocument.checksum # NullChecksum
    /\ parseMarkdown(AllTexts[existingDocument.checksum]).content
          = parseMarkdown(AllTexts[checksum]).content

checksumMatchesOrNull(existingDocument, checksum) ==
    /\ existingDocument # NoDoc
    /\ existingDocument.checksum \in {checksum, NullChecksum}

checksumMatches(existingDocument, checksum) ==
    existingDocument # NoDoc /\ existingDocument.checksum = checksum

\* the parse and the chunking of each text a note can hold, computed once
parsedTexts ==
    [markdown \in {AllTexts[n] : n \in 1..Len(AllTexts)} |->
        [sections |-> SectionsOf(markdown),
         frontmatter |-> parseMarkdown(markdown).frontmatter]]

\* the parse and the chunking that precede the upsert
parsed(rr) ==
    [rr EXCEPT !.pc = "upsert",
               !.sections = parsedTexts[rr.markdown].sections,
               !.frontmatter = parsedTexts[rr.markdown].frontmatter]

\* the file is read, its checksum and visibility are computed and compared
\* with the stored row
ReadAndDiff(r) ==
    LET rr == run[r]
        f == currentFile(rr)
        markdown == vault[f]
        exists == f \in DOMAIN vault
        checksum == createHash(markdown)
        isPublic == isFileInDirectories(f, rr.publicDirs)
        read == [rr EXCEPT !.markdown = markdown, !.checksum = checksum,
                           !.isPublic = isPublic]
    IN
    /\ rr.pc = "read"
    /\ \/ /\ ~exists
          /\ run' = [run EXCEPT ![r] = caught(rr, "read")]
          /\ failures' = failures + 1
       \/ /\ exists
          /\ run' = [run EXCEPT ![r] =
                IF checksumMatches(rr.existingDocument, checksum)
                THEN IF rr.existingDocument.public = isPublic
                     THEN [nextFile(rr) EXCEPT
                              !.embeddingResult = countSuccess(rr.embeddingResult),
                              !.outcome[f] = "skip"]
                     ELSE [read EXCEPT !.pc = "access"]
                ELSE IF rr.existingDocument # NoDoc
                     THEN [read EXCEPT !.pc = "deleteSections"]
                     ELSE parsed(read)]
          /\ UNCHANGED failures
       \/ /\ CanFail
          /\ run' = [run EXCEPT ![r] = caught(rr, "read")]
          /\ failures' = failures + 1
    /\ UNCHANGED <<vault, settings, document, document_section, nextId,
                   passes, edits, stable>>
    /\ UNCHANGED <<uiVars, onLayoutReady, chopped>>

\* the visibility flag of an unchanged document is updated
UpdateAccess(r) ==
    LET rr == run[r]
        f == currentFile(rr)
        asked == [rr EXCEPT !.writes = bump(rr.writes, f)]
    IN
    /\ rr.pc = "access"
    /\ \/ /\ document' = updatePublicById(rr.existingDocument.id, rr.isPublic)
          /\ run' = [run EXCEPT ![r] =
                [nextFile(asked) EXCEPT
                    !.embeddingResult = countUpdate(rr.embeddingResult),
                    !.outcome[f] = "visibility"]]
          /\ UNCHANGED failures
       \/ /\ CanFail
          /\ run' = [run EXCEPT ![r] = caught(asked, "access")]
          /\ failures' = failures + 1
          /\ UNCHANGED document
    /\ UNCHANGED <<vault, settings, document_section, nextId, passes, edits, stable>>
    /\ UNCHANGED <<uiVars, onLayoutReady, chopped>>

\* the sections of a changed document are deleted
DeleteSections(r) ==
    LET rr == run[r]
        f == currentFile(rr)
        asked == [rr EXCEPT !.writes = bump(rr.writes, f)]
        kept == deleteSectionsByDocumentId(rr.existingDocument.id)
    IN
    /\ rr.pc = "deleteSections"
    /\ \/ /\ document_section' = kept
          /\ run' = [run EXCEPT ![r] =
                parsed([asked EXCEPT !.dropped[f] = Len(document_section) - Len(kept)])]
          /\ UNCHANGED failures
       \/ /\ CanFail
          /\ run' = [run EXCEPT ![r] = caught(asked, "deleteSections")]
          /\ failures' = failures + 1
          /\ UNCHANGED document_section
    /\ UNCHANGED <<vault, settings, document, nextId, passes, edits, stable>>
    /\ UNCHANGED <<uiVars, onLayoutReady, chopped>>

\* the Document row is upserted with a null checksum
UpsertDocument(r) ==
    LET rr == run[r]
        f == currentFile(rr)
        asked == [rr EXCEPT !.writes = bump(rr.writes, f)]
        meta == [frontmatter |-> rr.frontmatter, path |-> f]
        rows == upsertDocument(f, meta, rr.isPublic)
        row == CHOOSE d \in rows : d.path = f
    IN
    /\ rr.pc = "upsert"
    /\ \/ /\ document' = rows
          /\ nextId' = IF row.id = nextId THEN nextId + 1 ELSE nextId
          /\ run' = [run EXCEPT ![r] =
                [asked EXCEPT !.documentId = row.id,
                              !.i = 1,
                              !.pc = IF rr.sections = <<>> THEN "checksum" ELSE "embed"]]
          /\ UNCHANGED failures
       \/ /\ CanFail
          /\ run' = [run EXCEPT ![r] = caught(asked, "upsert")]
          /\ failures' = failures + 1
          /\ UNCHANGED <<document, nextId>>
    /\ UNCHANGED <<vault, settings, document_section, passes, edits, stable>>
    /\ UNCHANGED <<uiVars, onLayoutReady, chopped>>

\* the embedding of section i is requested and the response arrives
CreateEmbedding(r) ==
    LET rr == run[r]
        f == currentFile(rr)
        asked == [rr EXCEPT !.embeds = bump(rr.embeds, f)]
    IN
    /\ rr.pc = "embed"
    /\ \/ /\ run' = [run EXCEPT ![r] = [asked EXCEPT !.pc = "json"]]
          /\ UNCHANGED failures
       \/ /\ CanFail
          /\ run' = [run EXCEPT ![r] = caught(asked, "embed")]
          /\ failures' = failures + 1
    /\ UNCHANGED <<vault, settings, document, document_section, nextId,
                   passes, edits, stable>>
    /\ UNCHANGED <<uiVars, onLayoutReady, chopped>>

\* the body of the embedding response is read
EmbeddingJson(r) ==
    LET rr == run[r]
        f == currentFile(rr)
        input == createChunkContext(rr.sections[rr.i], rr.frontmatter, f,
                                    previousSectionChopped(rr.sections, rr.i))
    IN
    /\ rr.pc = "json"
    /\ \/ /\ run' = [run EXCEPT ![r] =
                [rr EXCEPT !.response = EmbeddingOf(input), !.pc = "insert"]]
          /\ UNCHANGED failures
       \/ /\ CanFail
          /\ run' = [run EXCEPT ![r] = caught(rr, "embed")]
          /\ failures' = failures + 1
    /\ UNCHANGED <<vault, settings, document, document_section, nextId,
                   passes, edits, stable>>
    /\ UNCHANGED <<uiVars, onLayoutReady, chopped>>

\* the loop over the sections goes on after an insert
afterInsertSkipRest(rr) ==
    [rr EXCEPT !.i = rr.i + 1, !.response = NoResponse, !.pc = "checksum"]

afterInsert(rr) ==
    [rr EXCEPT !.i = rr.i + 1, !.response = NoResponse,
               !.pc = IF rr.i + 1 > Len(rr.sections) THEN "checksum" ELSE "embed"]

\* section i is inserted with its embedding; the insert is refused when the
\* owning Document row is gone
InsertSection(r) ==
    LET rr == run[r]
        f == currentFile(rr)
        asked == [rr EXCEPT !.writes = bump(rr.writes, f)]
        owned == \E d \in document : d.id = rr.documentId
    IN
    /\ rr.pc = "insert"
    /\ \/ /\ owned
          /\ document_section' =
                insertSection(rr.documentId, rr.sections[rr.i], rr.response)
          /\ run' = [run EXCEPT ![r] = afterInsert(asked)]
          /\ UNCHANGED failures
       \/ /\ IF owned THEN CanFail ELSE TRUE
          /\ run' = [run EXCEPT ![r] = caught(asked, "insert")]
          /\ failures' = IF owned THEN failures + 1 ELSE failures
          /\ UNCHANGED document_section
    /\ UNCHANGED <<vault, settings, document, nextId, passes, edits, stable>>
    /\ UNCHANGED <<uiVars, onLayoutReady, chopped>>

\* the checksum of the fully stored document is set
UpdateChecksum(r) ==
    LET rr == run[r]
        f == currentFile(rr)
        asked == [rr EXCEPT !.writes = bump(rr.writes, f)]
    IN
    /\ rr.pc = "checksum"
    /\ \/ /\ document' = updateChecksumById(rr.documentId, rr.checksum)
          /\ run' = [run EXCEPT ![r] =
                [nextFile(asked) EXCEPT
                    !.embeddingResult = countUpdate(rr.embeddingResult),
                    !.outcome[f] = "reindex"]]
          /\ UNCHANGED failures
       \/ /\ CanFail
          /\ run' = [run EXCEPT ![r] = caught(asked, "checksum")]
          /\ failures' = failures + 1
          /\ UNCHANGED document
    /\ UNCHANGED <<vault, settings, document_section, nextId, passes, edits, stable>>
    /\ UNCHANGED <<uiVars, onLayoutReady, chopped>>

\* the documents of the scan whose path is not among the files of the pass
danglingAmongNone(existingDocuments, files) == <<>>

danglingAmong(existingDocuments, files) ==
    SelectSeq(existingDocuments, LAMBDA d : d.path \notin Range(files))

\* all Document rows are fetched to find the dangling ones
ScanDocuments(r) ==
    LET rr == run[r]
        asked == [rr EXCEPT !.scanned = TRUE]
        dangling == danglingAmong(selectAllDocuments, rr.files)
    IN
    /\ rr.pc = "scan"
    /\ \/ /\ run' = [run EXCEPT ![r] =
                [asked EXCEPT !.dangling = dangling,
                              !.pc = IF dangling = <<>> THEN "done" ELSE "recon"]]
          /\ UNCHANGED failures
       \/ /\ CanFail
          /\ run' = [run EXCEPT ![r] =
                [asked EXCEPT !.embeddingResult = countError(rr.embeddingResult),
                              !.failedCalls = @ + 1,
                              !.reconFailures = @ + 1,
                              !.pc = "done"]]
          /\ failures' = failures + 1
    /\ UNCHANGED <<vault, settings, document, document_section, nextId,
                   passes, edits, stable>>
    /\ UNCHANGED <<uiVars, onLayoutReady, chopped>>

\* the loop over the dangling documents goes on
abortDangling(rr) == [rr EXCEPT !.dangling = <<>>, !.pc = "done"]

nextDangling(rr) ==
    [rr EXCEPT !.dangling = Tail(rr.dangling),
               !.pc = IF Tail(rr.dangling) = <<>> THEN "done" ELSE "recon"]

\* the next dangling document is deleted
DeleteDangling(r) ==
    LET rr == run[r]
        d == Head(rr.dangling)
        rows == deleteDocumentByPath(d.path)
    IN
    /\ rr.pc = "recon"
    /\ \/ /\ document' = rows
          /\ document_section' = cascadeSections(rows)
          /\ run' = [run EXCEPT ![r] =
                [nextDangling(rr) EXCEPT
                    !.embeddingResult = countDelete(rr.embeddingResult)]]
          /\ UNCHANGED failures
       \/ /\ CanFail
          /\ run' = [run EXCEPT ![r] =
                [nextDangling(rr) EXCEPT
                    !.embeddingResult = countDelete(countError(rr.embeddingResult)),
                    !.failedCalls = @ + 1,
                    !.reconFailures = @ + 1]]
          /\ failures' = failures + 1
          /\ UNCHANGED <<document, document_section>>
    /\ UNCHANGED <<vault, settings, nextId, passes, edits, stable>>
    /\ UNCHANGED <<uiVars, onLayoutReady, chopped>>

\* the result is returned and reported by the caller
Report(r) ==
    /\ run[r].pc = "done"
    /\ run' = [run EXCEPT ![r] = IdleRun]
    /\ stable' = (run[r].failedCalls = 0 /\ ~run[r].edited)
    /\ UNCHANGED <<vault, settings, document, document_section, nextId,
                   passes, edits, failures>>
    /\ UNCHANGED <<uiVars, onLayoutReady, chopped>>

\* ------------------------------------------------------------------------
\* The user edits the vault and the settings, also while a pass is under way
\* ------------------------------------------------------------------------

CanEdit == edits < MaxEdits

\* history: the passes under way saw an edit
edited(runs) ==
    [r \in Runs |-> IF runs[r].pc = "idle" THEN runs[r]
                    ELSE [runs[r] EXCEPT !.edited = TRUE]]

WriteFile(filePath, text) ==
    /\ CanEdit
    /\ IF filePath \in DOMAIN vault THEN vault[filePath] # text ELSE TRUE
    /\ vault' = [q \in DOMAIN vault \cup {filePath} |->
                    IF q = filePath THEN text ELSE vault[q]]
    /\ edits' = edits + 1
    /\ stable' = FALSE
    /\ run' = edited(run)
    /\ UNCHANGED <<settings, document, document_section, nextId,
                   passes, failures>>
    /\ UNCHANGED <<uiVars, onLayoutReady, chopped>>

DeleteFile(filePath) ==
    /\ CanEdit
    /\ filePath \in DOMAIN vault
    /\ vault' = [q \in DOMAIN vault \ {filePath} |-> vault[q]]
    /\ edits' = edits + 1
    /\ stable' = FALSE
    /\ run' = edited(run)
    /\ UNCHANGED <<settings, document, document_section, nextId,
                   passes, failures>>
    /\ UNCHANGED <<uiVars, onLayoutReady, chopped>>

\* the "Excluded Directories" setting is changed
SetExcludedDirs(value) ==
    /\ CanEdit
    /\ dirsListOf(value) # settings.excludedDirsList
    /\ settings' = [settings EXCEPT !.excludedDirsList = dirsListOf(value)]
    /\ edits' = edits + 1
    /\ stable' = FALSE
    /\ run' = edited(run)
    /\ UNCHANGED <<vault, document, document_section, nextId,
                   passes, failures>>
    /\ UNCHANGED <<uiVars, onLayoutReady, chopped>>

\* the "Public Directories" setting is changed
SetPublicDirs(value) ==
    /\ CanEdit
    /\ dirsListOf(value) # settings.publicDirsList
    /\ settings' = [settings EXCEPT !.publicDirsList = dirsListOf(value)]
    /\ edits' = edits + 1
    /\ stable' = FALSE
    /\ run' = edited(run)
    /\ UNCHANGED <<vault, document, document_section, nextId,
                   passes, failures>>
    /\ UNCHANGED <<uiVars, onLayoutReady, chopped>>

Edit ==
    \/ \E p \in Paths, t \in Texts : WriteFile(p, t)
    \/ \E p \in Paths : DeleteFile(p)
    \/ \E v \in DirInputs : SetExcludedDirs(v)
    \/ \E v \in DirInputs : SetPublicDirs(v)

\* the guard of both commands' checkCallback
checkCallback == supabaseClient # NoSupabaseClient /\ openai # NoOpenai

\* the "Refresh Index" command
RefreshIndex(r) ==
    /\ checkCallback
    /\ Start(r)
    /\ UNCHANGED <<onLayoutReady, chopped>>

Step(r) ==
    \/ RefreshIndex(r)
    \/ FetchDocument(r)
    \/ ReadAndDiff(r)
    \/ UpdateAccess(r)
    \/ DeleteSections(r)
    \/ UpsertDocument(r)
    \/ CreateEmbedding(r)
    \/ EmbeddingJson(r)
    \/ InsertSection(r)
    \/ UpdateChecksum(r)
    \/ ScanDocuments(r)
    \/ DeleteDangling(r)
    \/ Report(r)

\* one sync at a time
Next == Step(1) \/ Edit

Spec == Init /\ [][Next]_vars

\* a call awaited by generateEmbeddings returns, with a value or an error
Returns(r) ==
    \/ FetchDocument(r)
    \/ ReadAndDiff(r)
    \/ UpdateAccess(r)
    \/ DeleteSections(r)
    \/ UpsertDocument(r)
    \/ CreateEmbedding(r)
    \/ EmbeddingJson(r)
    \/ InsertSection(r)
    \/ UpdateChecksum(r)
    \/ ScanDocuments(r)
    \/ DeleteDangling(r)

\* one sync at a time, every awaited call returning in the end
SpecFair == Init /\ [][Next]_vars /\ WF_vars(Returns(1))

\* two syncs at a time: the commands have no in-progress guard
NextOverlap == (\E r \in Runs : Step(r)) \/ Edit

\* a vault with one note of one chunk
InitOverlap ==
    /\ Init
    /\ vault = [p \in {PathOrder[1]} |-> TextC]
    /\ settings = loadSettings(<<>>, <<>>)

SpecOverlap == InitOverlap /\ [][NextOverlap]_vars

\* ------------------------------------------------------------------------
\* The search modals
\* ------------------------------------------------------------------------

\* number of getSuggestionsInternal calls that start a search
MaxSearches == 2

syncVars == <<vault, settings, document, document_section, nextId, run,
              passes, edits, stable>>

RECURSIVE Repeat(_, _)
Repeat(ch, n) == IF n = 0 THEN <<>> ELSE <<ch>> \o Repeat(ch, n - 1)

\* the texts typed into the modal's input
QueryOk == Repeat("a", 11)
QueryOkSpace == Append(Repeat("a", 11), " ")
QueryBad == Repeat("x", 11)
QueryShort == <<"h", "i">>

QueryInputs == {QueryOk, QueryOkSpace, QueryBad, QueryShort}

\* the response of the moderation provider to an input
createModeration(input) == [flagged |-> input = QueryBad]

\* what getSuggestionsInternal does with the moderation response
afterModerationIgnoringFlag(moderationRes) == "searching"

afterModeration(moderationRes) ==
    IF moderationRes.flagged THEN "thrown" ELSE "searching"

\* the rows semanticSearch returns for a query
semanticSearchResults(query) == << [matches |-> trim(query)] >>

\* messageHistory.push({ role: "system", content: this.prompt })
systemMessage(content) == [role |-> "system", content |-> content]

\* the first modal of the document: what document.querySelector finds for
\* a class of the modal's elements
firstInDocument(modals) ==
    CHOOSE k \in Modals :
        /\ modals[k].state \in {"search", "chat"}
        /\ \A j \in Modals : modals[j].state \in {"search", "chat"} => k <= j

\* the modals that were constructed
Opened == { m \in Modals : modal[m].state # "none" }

\* the user can still type
CanType ==
    LET RECURSIVE sum(_)
        sum(m) == IF m > MaxModals THEN 0 ELSE modal[m].typed + sum(m + 1)
    IN  sum(1) < MaxTyped

\* the modal on top of the others takes the typing and the clicks
OnTop(m) ==
    /\ modal[m].state \in {"search", "chat"}
    /\ \A k \in Modals : modal[k].state \in {"search", "chat"} => k <= m

\* new AISearchModal(...).open(), behind the command's checkCallback: the
\* command makes a new modal each time it runs, whatever became of the
\* modals it made before
OpenSearch(asYouType) ==
    /\ checkCallback
    /\ Opened # Modals
    /\ LET m == CHOOSE k \in Modals \ Opened : \A j \in Modals \ Opened : k <= j
       IN  modal' = [modal EXCEPT ![m] =
                        [NoModal EXCEPT !.state = "search",
                                        !.promptShown = TRUE,
                                        !.prompt = settings.prompt,
                                        !.searchAsYouType = asYouType,
                                        !.messageHistory =
                                            << systemMessage(settings.prompt) >>,
                                        !.listeners = {"triggerChatListener"}]]
    /\ UNCHANGED <<creds, supabaseClient, openai, saving, credChanges, searches>>
    /\ UNCHANGED <<syncVars, failures, onLayoutReady, chopped>>

\* the condition under which getSuggestionsInternal starts a search
startsSearchWhateverTheLast(searchQuery, query, forceDespiteLength) ==
    Len(query) > configGet("minLengthBeforeAutoSearch") \/ forceDespiteLength

startsSearch(searchQuery, query, forceDespiteLength) ==
    /\ trim(query) # trim(searchQuery)
    /\ (Len(query) > configGet("minLengthBeforeAutoSearch") \/ forceDespiteLength)

\* getSuggestionsInternal of modal m up to its first await; ui holds the
\* modals and the calls under way
invoke(ui, m, query, forceDespiteLength) ==
    IF startsSearch(ui.modal[m].searchQuery, query, forceDespiteLength)
    THEN [modal |-> [ui.modal EXCEPT ![m].searchQuery = query],
          searches |-> Append(ui.searches,
              [modal |-> m, query |-> query, force |-> forceDespiteLength,
               pc |-> "moderating", moderationRes |-> [flagged |-> FALSE],
               searched |-> FALSE, error |-> ""])]
    ELSE [modal |-> [ui.modal EXCEPT ![m].declined =
                        [query |-> query, force |-> forceDespiteLength]],
          searches |-> ui.searches]

\* getSuggestions: with search as you type the query goes to the debouncer
getSuggestions(mo, query) ==
    IF mo.searchAsYouType
    THEN [mo EXCEPT !.debounced = query, !.pending = TRUE]
    ELSE mo

\* updateSuggestions of the host's SuggestModal: the suggestions are asked
\* for again with the value of the input
updateSuggestions(mo) == getSuggestions(mo, mo.inputEl)

\* the user types into the input of modal m
TypeQuery(m, query) ==
    /\ OnTop(m)
    /\ CanType
    /\ modal[m].promptShown
    /\ modal[m].inputEl # query
    /\ modal' = [modal EXCEPT ![m] =
                    getSuggestions([modal[m] EXCEPT !.inputEl = query,
                                                    !.typed = @ + 1], query)]
    /\ UNCHANGED <<creds, supabaseClient, openai, saving, credChanges, searches>>
    /\ UNCHANGED <<syncVars, failures, onLayoutReady, chopped>>

\* the debouncer's timer of modal m fires with the latest query
DebounceFires(m) ==
    /\ modal[m].pending
    /\ LET ui == invoke([modal |-> [modal EXCEPT ![m].pending = FALSE,
                                                ![m].debounced = <<>>],
                         searches |-> searches],
                        m, modal[m].debounced, FALSE)
       IN  /\ Len(ui.searches) <= MaxSearches
           /\ modal' = ui.modal
           /\ searches' = ui.searches
    /\ UNCHANGED <<creds, supabaseClient, openai, saving, credChanges>>
    /\ UNCHANGED <<syncVars, failures, onLayoutReady, chopped>>

\* the triggerChatListeners registered on the document run for Alt+Enter
RECURSIVE altEnterFrom(_, _)
altEnterFrom(ui, m) ==
    IF m > MaxModals THEN ui
    ELSE altEnterFrom(IF "triggerChatListener" \in ui.modal[m].listeners
                      THEN invoke(ui, m, ui.modal[m].inputEl, TRUE)
                      ELSE ui,
                      m + 1)

\* keydown Alt+Enter on the document
AltEnter ==
    /\ \E m \in Modals : "triggerChatListener" \in modal[m].listeners
    /\ LET ui == altEnterFrom([modal |-> modal, searches |-> searches], 1)
       IN  /\ Len(ui.searches) <= MaxSearches
           /\ modal' = ui.modal
           /\ searches' = ui.searches
    /\ UNCHANGED <<creds, supabaseClient, openai, saving, credChanges>>
    /\ UNCHANGED <<syncVars, failures, onLayoutReady, chopped>>

\* the moderation call of search c responds, or fails
ModerationResponds(c) ==
    /\ c \in 1..Len(searches)
    /\ searches[c].pc = "moderating"
    /\ \/ /\ searches' = [searches EXCEPT ![c].pc = "moderationJson"]
          /\ UNCHANGED failures
       \/ /\ CanFail
          /\ searches' = [searches EXCEPT ![c].pc = "thrown",
                                          ![c].error = "moderation failed"]
          /\ failures' = failures + 1
    /\ UNCHANGED <<creds, supabaseClient, openai, saving, credChanges, modal>>
    /\ UNCHANGED <<syncVars, onLayoutReady, chopped>>

\* the body of the moderation response of search c is read
ModerationReturns(c) ==
    /\ c \in 1..Len(searches)
    /\ searches[c].pc = "moderationJson"
    /\ \/ LET moderationRes == createModeration(trim(searches[c].query))
              m == searches[c].modal
          IN  /\ IF afterModeration(moderationRes) = "thrown"
                 THEN /\ modal' = [modal EXCEPT ![m] =
                             updateSuggestions([modal[m] EXCEPT !.results = <<>>])]
                      /\ searches' = [searches EXCEPT
                             ![c].pc = "thrown",
                             ![c].moderationRes = moderationRes,
                             ![c].error = "Flagged content"]
                 ELSE /\ modal' = modal
                      /\ searches' = [searches EXCEPT
                             ![c].pc = "searching",
                             ![c].moderationRes = moderationRes,
                             ![c].searched = TRUE]
              /\ UNCHANGED failures
       \/ /\ CanFail
          /\ searches' = [searches EXCEPT ![c].pc = "thrown",
                                          ![c].error = "moderation failed"]
          /\ failures' = failures + 1
          /\ UNCHANGED modal
    /\ UNCHANGED <<creds, supabaseClient, openai, saving, credChanges>>
    /\ UNCHANGED <<syncVars, onLayoutReady, chopped>>

\* semanticSearch of search c returns or throws
SearchReturns(c) ==
    /\ c \in 1..Len(searches)
    /\ searches[c].pc = "searching"
    /\ searches' = [searches EXCEPT ![c].pc = "done"]
    /\ LET m == searches[c].modal IN
       \/ /\ modal' = [modal EXCEPT ![m] =
                 updateSuggestions([modal[m] EXCEPT
                     !.results = semanticSearchResults(searches[c].query)])]
          /\ UNCHANGED failures
       \/ /\ CanFail
          /\ modal' = [modal EXCEPT ![m] =
                 updateSuggestions([modal[m] EXCEPT !.results = <<>>])]
          /\ failures' = failures + 1
    /\ UNCHANGED <<creds, supabaseClient, openai, saving, credChanges>>
    /\ UNCHANGED <<syncVars, onLayoutReady, chopped>>

\* onClose of modal m
CloseModal(m) ==
    /\ OnTop(m)
    /\ modal' = [modal EXCEPT ![m].state = "closed", ![m].listeners = {}]
    /\ UNCHANGED <<creds, supabaseClient, openai, saving, credChanges, searches>>
    /\ UNCHANGED <<syncVars, failures, onLayoutReady, chopped>>

NextModal ==
    \/ \E b \in BOOLEAN : OpenSearch(b)
    \/ \E m \in Modals, q \in QueryInputs : TypeQuery(m, q)
    \/ \E m \in Modals : DebounceFires(m)
    \/ AltEnter
    \/ \E c \in 1..MaxSearches : ModerationResponds(c)
    \/ \E c \in 1..MaxSearches : ModerationReturns(c)
    \/ \E c \in 1..MaxSearches : SearchReturns(c)
    \/ \E m \in Modals : CloseModal(m)

InitModal ==
    /\ Init
    /\ settings = loadSettings(<<>>, <<>>)
    /\ vault = [p \in Paths |-> TextA]

SpecModal == InitModal /\ [][NextModal]_vars

\* ------------------------------------------------------------------------
\* The chat of the search modal
\* ------------------------------------------------------------------------

\* number of chat messages sent
MaxChats == 2

\* the texts typed into the chat input
ChatInputs == { <<"w", "h", "y">>, <<" ">> }

\* triggerChatListener on Shift+Enter: the keydown listeners after it
enterChat(listeners) ==
    (listeners \ {"triggerChatListener"}) \cup {"chatSendListener"}

\* backButtonListener: the keydown listeners after it
leaveChatKeepingSend(listeners) == listeners \cup {"triggerChatListener"}

leaveChat(listeners) ==
    (listeners \ {"chatSendListener"}) \cup {"triggerChatListener"}

\* messageHistory.push({ role: "assistant", content: res })
pushAnswerAsOnlyMessage(messageHistory, res) ==
    << [role |-> "assistant", content |-> res] >>

pushAnswer(messageHistory, res) ==
    Append(messageHistory, [role |-> "assistant", content |-> res])

\* the answer of the chat model to a message
answerTo(message) == <<"=">> \o message

\* the chat messages sent so far, over all modals
ChatsSent(modals) ==
    LET RECURSIVE sum(_)
        sum(m) == IF m > MaxModals THEN 0 ELSE Len(modals[m].chats) + sum(m + 1)
    IN  sum(1)

\* what the listener a modal has registered does to the modal itself on
\* Shift+Enter: triggerChatListener copies the query to the chat input and
\* hands over to chatSendListener, chatSendListener sends the message of
\* the chat input unless it is blank
shiftEnter(mo) ==
    LET message == trim(mo.chatInput) IN
    IF "triggerChatListener" \in mo.listeners
    THEN [mo EXCEPT !.chatInput = mo.inputEl,
                    !.listeners = enterChat(mo.listeners)]
    ELSE IF "chatSendListener" \in mo.listeners /\ message # <<>>
    THEN [mo EXCEPT !.chatInput = <<>>,
                    !.chats = Append(@, [message |-> message,
                                         pc |-> "retrieving",
                                         res |-> <<>>])]
    ELSE mo

\* keydown Shift+Enter on the document: the registered listeners run. Every
\* triggerChatListener hides the input, the answer box and the results and
\* shows the chat container that document.querySelector finds, which are
\* those of the first modal of the document
ShiftEnter ==
    /\ \E m \in Modals : modal[m].listeners # {}
    /\ LET triggered == \E m \in Modals :
                            "triggerChatListener" \in modal[m].listeners
           first == firstInDocument(modal)
       IN  modal' = [m \in Modals |->
                        IF triggered /\ m = first
                        THEN [shiftEnter(modal[m]) EXCEPT !.promptShown = FALSE,
                                                          !.state = "chat"]
                        ELSE shiftEnter(modal[m])]
    /\ ChatsSent(modal') <= MaxChats
    /\ UNCHANGED <<creds, supabaseClient, openai, saving, credChanges, searches>>
    /\ UNCHANGED <<syncVars, failures, onLayoutReady, chopped>>

\* click on the back button of the chat of modal m: the input, the answer
\* box and the results that document.querySelector finds are shown again,
\* the modal's own chat container is hidden
BackButton(m) ==
    /\ OnTop(m)
    /\ modal[m].state = "chat"
    /\ LET first == firstInDocument(modal)
           shown == [modal EXCEPT ![first].promptShown = TRUE]
       IN  modal' = [shown EXCEPT ![m].state = "search",
                                  ![m].listeners = leaveChat(modal[m].listeners)]
    /\ UNCHANGED <<creds, supabaseClient, openai, saving, credChanges, searches>>
    /\ UNCHANGED <<syncVars, failures, onLayoutReady, chopped>>

\* the user types into the chat input of modal m
TypeChat(m, message) ==
    /\ OnTop(m)
    /\ CanType
    /\ modal[m].state = "chat"
    /\ modal[m].chatInput # message
    /\ modal' = [modal EXCEPT ![m].chatInput = message, ![m].typed = @ + 1]
    /\ UNCHANGED <<creds, supabaseClient, openai, saving, credChanges, searches>>
    /\ UNCHANGED <<syncVars, failures, onLayoutReady, chopped>>

\* generativeSearch of chat c of modal m has moderated and retrieved: it
\* appends the user turn, or throws
GenerativeRetrieves(m, c) ==
    /\ c \in 1..Len(modal[m].chats)
    /\ modal[m].chats[c].pc = "retrieving"
    /\ \/ /\ modal' = [modal EXCEPT
                  ![m].messageHistory =
                      Append(@, [role |-> "user",
                                 content |-> modal[m].chats[c].message]),
                  ![m].chats[c].pc = "completing"]
          /\ UNCHANGED failures
       \/ /\ CanFail
          /\ modal' = [modal EXCEPT ![m].chats[c].pc = "thrown"]
          /\ failures' = failures + 1
    /\ UNCHANGED <<creds, supabaseClient, openai, saving, credChanges, searches>>
    /\ UNCHANGED <<syncVars, onLayoutReady, chopped>>

\* the chat model has answered chat c of modal m: generativeSearch appends
\* the assistant turn and returns the text, or throws
GenerativeReturns(m, c) ==
    /\ c \in 1..Len(modal[m].chats)
    /\ modal[m].chats[c].pc = "completing"
    /\ \/ /\ modal' = [modal EXCEPT
                  ![m].messageHistory =
                      Append(@, [role |-> "assistant",
                                 content |-> answerTo(modal[m].chats[c].message)]),
                  ![m].chats[c].pc = "returned",
                  ![m].chats[c].res = answerTo(modal[m].chats[c].message)]
          /\ UNCHANGED failures
       \/ /\ CanFail
          /\ modal' = [modal EXCEPT ![m].chats[c].pc = "thrown"]
          /\ failures' = failures + 1
    /\ UNCHANGED <<creds, supabaseClient, openai, saving, credChanges, searches>>
    /\ UNCHANGED <<syncVars, onLayoutReady, chopped>>

\* chatSendListener goes on after its await: the answer is shown and pushed
ChatAnswered(m, c) ==
    /\ c \in 1..Len(modal[m].chats)
    /\ modal[m].chats[c].pc = "returned"
    /\ modal' = [modal EXCEPT
            ![m].messageHistory =
                pushAnswer(modal[m].messageHistory, modal[m].chats[c].res),
            ![m].chats[c].pc = "answered"]
    /\ UNCHANGED <<creds, supabaseClient, openai, saving, credChanges, searches>>
    /\ UNCHANGED <<syncVars, failures, onLayoutReady, chopped>>

\* the texts to type into the "Prompt" setting
PromptInputs ==
    { <<"o", "r", " ", "s", "o">>,
      <<" ", "o", "r", "\n", " ", " ", "s", "o", "\n">> }

\* the "Prompt" setting is changed
SetPrompt(value) ==
    /\ settings' = [settings EXCEPT !.prompt = oneLine(value)]
    /\ UNCHANGED <<vault, document, document_section, nextId, run,
                   passes, edits, failures, stable>>
    /\ UNCHANGED <<uiVars, onLayoutReady, chopped>>

NextChat ==
    \/ \E v \in PromptInputs : SetPrompt(v)
    \/ \E b \in {FALSE} : OpenSearch(b)
    \/ \E m \in Modals, q \in {QueryOk, QueryShort} : TypeQuery(m, q)
    \/ ShiftEnter
    \/ \E m \in Modals : BackButton(m)
    \/ \E m \in Modals, t \in ChatInputs : TypeChat(m, t)
    \/ \E m \in Modals, c \in 1..MaxChats : GenerativeRetrieves(m, c)
    \/ \E m \in Modals, c \in 1..MaxChats : GenerativeReturns(m, c)
    \/ \E m \in Modals, c \in 1..MaxChats : ChatAnswered(m, c)
    \/ \E m \in Modals : CloseModal(m)

SpecChat == InitModal /\ [][NextChat]_vars

\* ------------------------------------------------------------------------
\* The credentials of the settings tab and the entry points
\* ------------------------------------------------------------------------

\* number of changes typed into the credential fields
MaxCredChanges == 2

CredFields == {"supabaseUrl", "supabaseKey", "openaiKey"}

\* onChange of a credential field, up to its await of saveSettings
ChangeCredential(field, value) ==
    /\ credChanges < MaxCredChanges
    /\ creds[field] # value
    /\ creds' = [creds EXCEPT ![field] = value]
    /\ saving' = Append(saving, field)
    /\ credChanges' = credChanges + 1
    /\ UNCHANGED <<supabaseClient, openai, modal, searches, onLayoutReady, chopped>>
    /\ UNCHANGED <<syncVars, failures>>

\* saveSettings of the i-th waiting handler is done: the client is set up
\* from the settings as they are now
SaveDone(i) ==
    /\ i \in 1..Len(saving)
    /\ IF saving[i] = "openaiKey"
       THEN /\ openai' = setupOpenai(creds)
            /\ UNCHANGED supabaseClient
       ELSE /\ supabaseClient' = setupSupabase(creds)
            /\ UNCHANGED openai
    /\ saving' = [j \in 1..(Len(saving) - 1) |->
                     IF j < i THEN saving[j] ELSE saving[j + 1]]
    /\ UNCHANGED <<creds, credChanges, modal, searches, onLayoutReady, chopped>>
    /\ UNCHANGED <<syncVars, failures>>

\* saveSettings of the i-th waiting handler rejects: the handler ends there,
\* its setup call is never reached
SaveFails(i) ==
    /\ i \in 1..Len(saving)
    /\ saving' = [j \in 1..(Len(saving) - 1) |->
                     IF j < i THEN saving[j] ELSE saving[j + 1]]
    /\ UNCHANGED <<creds, supabaseClient, openai, credChanges, modal, searches,
                   onLayoutReady, chopped>>
    /\ UNCHANGED <<syncVars, failures>>

\* the callback registered with onLayoutReady at startup
StartupIndexing(r) ==
    /\ onLayoutReady = "registered"
    /\ onLayoutReady' = "called"
    /\ UNCHANGED chopped
    /\ IF checkCallback
       THEN Start(r)
       ELSE /\ r = 1
            /\ UNCHANGED <<syncVars, failures, uiVars>>

NextPlugin ==
    \/ \E f \in CredFields, v \in CredValues : ChangeCredential(f, v)
    \/ \E i \in 1..MaxCredChanges : SaveDone(i)
    \/ \E i \in 1..MaxCredChanges : SaveFails(i)
    \/ \E r \in Runs : StartupIndexing(r)
    \/ \E r \in Runs : RefreshIndex(r)
    \/ \E r \in Runs : ScanDocuments(r)
    \/ \E r \in Runs : Report(r)
    \/ \E b \in BOOLEAN : OpenSearch(b)
    \/ \E m \in Modals : CloseModal(m)

\* a vault without notes, any saved credentials, indexOnOpen on or off
InitPluginAny ==
    /\ \E loaded \in [CredFields -> CredValues], indexOnOpen \in BOOLEAN :
          InitPlugin(loaded, indexOnOpen)
    /\ chopped = NotChopped
    /\ vault = [p \in {} |-> TextA]
    /\ settings = loadSettings(<<>>, <<>>)
    /\ document = {}
    /\ document_section = <<>>
    /\ nextId = 1
    /\ run = [r \in Runs |-> IdleRun]
    /\ passes = 0
    /\ edits = 0
    /\ failures = 0
    /\ stable = FALSE

SpecPlugin == InitPluginAny /\ [][NextPlugin]_vars

\* ------------------------------------------------------------------------
\* The preceding tail of a chunk, over lists of chunks
\* ------------------------------------------------------------------------

\* chunks of 1 to 4 characters, one of them made of two paragraphs
ChunkInputs ==
    { << [line |-> "pc", from |-> 10, to |-> 11] >>,
      << [line |-> "pa", from |-> 0, to |-> 2] >>,
      << [line |-> "pa", from |-> 0, to |-> 1], [line |-> "pb", from |-> 0, to |-> 2] >>,
      << [line |-> "pa", from |-> 0, to |-> 4] >> }

\* the section lists of a note of one, two or three chunks
SectionInputs ==
    { <<c>> : c \in ChunkInputs }
    \cup { <<c, d>> : c \in ChunkInputs, d \in ChunkInputs }
    \cup { <<c, d, e>> : c \in ChunkInputs, d \in ChunkInputs, e \in ChunkInputs }

\* the tail is computed for section i of sections
ChopPrevious(sections, i) ==
    /\ chopped' = [sections |-> sections, i |-> i,
                   tail |-> previousSectionChopped(sections, i)]
    /\ UNCHANGED <<syncVars, failures, uiVars, onLayoutReady>>

NextTail ==
    \E sections \in SectionInputs :
        \E i \in 1..Len(sections) : ChopPrevious(sections, i)

SpecTail == InitModal /\ [][NextTail]_vars

\* ------------------------------------------------------------------------
\* Properties
\* ------------------------------------------------------------------------

\* the section rows of a document, in insertion order
SectionRows(table, id) == SelectSeq(table, LAMBDA s : s.document_id = id)

\* the section rows a complete indexing of a text stores for a document
ExpectedSections(id, filePath, text) ==
    LET secs == SectionsOf(text)
        fm == parseMarkdown(text).frontmatter
    IN  [n \in 1..Len(secs) |->
            LET input == createChunkContext(secs[n], fm, filePath,
                                            previousSectionChopped(secs, n))
            IN  [document_id |-> id, content |-> secs[n],
                 token_count |-> EmbeddingOf(input).total_tokens,
                 embedding |-> EmbeddingOf(input).embedding]]

IsPrefix(s, t) == Len(s) <= Len(t) /\ SubSeq(t, 1, Len(s)) = s

\* a path falls under one of the directory prefixes
UnderPrefix(filePath, dirs) ==
    \E n \in 1..Len(dirs) :
        LET dir == normalize(dirs[n]) file == normalize(filePath) IN
        /\ Len(dir) <= Len(file)
        /\ \A c \in 1..Len(dir) : file[c] = dir[c]

Result(r) == run[r].embeddingResult

\* C1: a step that writes a non-null checksum to a Document row is taken
\* only when, in this pass, one embedding was requested for every chunk of
\* the text the pass read from the file and the document's Sections are
\* exactly those chunks.
C1_ChecksumOnlyAfterAllSections ==
    [][\A d \in document' :
          (/\ d.checksum # NullChecksum
           /\ ~(\E e \in document : e.id = d.id /\ e.checksum = d.checksum))
          => /\ run[1].pc = "checksum" /\ currentFile(run[1]) = d.path
             /\ d.checksum = createHash(run[1].markdown)
             /\ run[1].embeds[d.path] = Len(SectionsOf(run[1].markdown))
             /\ SectionRows(document_section', d.id)
                   = ExpectedSections(d.id, d.path, run[1].markdown)]_vars

\* a re-indexed document of two chunks got its checksum
C1_Witness ==
    \E d \in document :
        /\ d.checksum # NullChecksum
        /\ run[1].outcome[d.path] = "reindex"
        /\ run[1].embeds[d.path] = 2
        /\ Len(SectionRows(document_section, d.id)) = 2

\* C2: at the end of a pass, a document one of whose steps failed has no
\* row with a non-null checksum, and the error count of the main pass is the
\* number of documents that failed.
C2_FailureLeavesNullChecksum ==
    run[1].pc = "done" =>
        /\ \A p \in Paths :
              run[1].failedAt[p] # "none" =>
                  \A d \in document : d.path = p => d.checksum = NullChecksum
        /\ Result(1).errorCount - run[1].reconFailures
              = Cardinality({ p \in Paths : run[1].failedAt[p] # "none" })

\* C3: the Sections of a Document are always an initial part of the
\* sections of one single text: chunks of two contents are never mixed.
C3_SectionsOfOneContent ==
    \A d \in document :
        \E t \in Texts :
            IsPrefix(SectionRows(document_section, d.id),
                     ExpectedSections(d.id, d.path, t))

\* the partial Sections a failed pass left were deleted and the first Section
\* of the new indexing is stored
C3_Witness ==
    \E d \in document :
        /\ run[1].pc \in {"embed", "json", "insert", "checksum"}
        /\ d.id = run[1].documentId
        /\ run[1].existingDocument.checksum = NullChecksum
        /\ run[1].dropped[d.path] > 0
        /\ Len(SectionRows(document_section, d.id)) > 0

\* the stored row of the file being diffed matches its text and, under the
\* public directories the pass was started with, its visibility
StoredMatches(r, samePublic) ==
    LET f == currentFile(run[r]) IN
    \E d \in document :
        /\ d.path = f
        /\ f \in DOMAIN vault
        /\ d.checksum = createHash(vault[f])
        /\ (d.public = UnderPrefix(f, run[r].publicDirs)) = samePublic

\* C4: when the stored checksum and public flag match the file, the diff
\* step writes nothing to the store, counts one success and nothing else.
C4_SkipWritesNothing ==
    [][(/\ run[1].pc = "read"
        /\ run'[1].pc # "read"
        /\ failures' = failures
        /\ StoredMatches(1, TRUE))
       => /\ document' = document
          /\ document_section' = document_section
          /\ run'[1].pc \in {"fetch", "scan"}
          /\ run'[1].writes = run[1].writes
          /\ run'[1].embeds = run[1].embeds
          /\ Result(1)' = [Result(1) EXCEPT !.successCount = @ + 1]]_vars

\* a document was skipped
C4_Witness ==
    \E p \in Paths :
        /\ run[1].outcome[p] = "skip"
        /\ run[1].writes[p] = 0
        /\ Result(1).successCount > 0

\* the rows of table `after` are those of `before` but for the public flag of
\* the row at path f, which is `flag`
OnlyPublicChanged(before, after, f, flag) ==
    after = { IF d.path = f THEN [d EXCEPT !.public = flag] ELSE d : d \in before }

\* C5: when the stored checksum matches and the visibility differs, the
\* document takes the visibility update: nothing but the public flag of its
\* row is written, no embedding is requested, and the update counts as one
\* success and one update.
C5_VisibilityUpdateOnly ==
    [][/\ (/\ run[1].pc = "read"
           /\ run'[1].pc # "read"
           /\ failures' = failures
           /\ StoredMatches(1, FALSE))
          => /\ run'[1].pc = "access"
             /\ document' = document
             /\ document_section' = document_section
             /\ Result(1)' = Result(1)
       /\ (run[1].pc = "access" /\ run'[1].pc # "access")
          => /\ document_section' = document_section
             /\ run'[1].embeds = run[1].embeds
             /\ IF failures' = failures
                THEN /\ OnlyPublicChanged(document, document', currentFile(run[1]),
                            UnderPrefix(currentFile(run[1]), run[1].publicDirs))
                     /\ Result(1)' = [Result(1) EXCEPT !.successCount = @ + 1,
                                                       !.updatedCount = @ + 1]
                ELSE document' = document]_vars

\* a document took the visibility update
C5_Witness ==
    \E d \in document :
        /\ run[1].outcome[d.path] = "visibility"
        /\ d.checksum # NullChecksum
        /\ Result(1).updatedCount > 0

\* the files of the vault that fall under no excluded prefix
Live(filePath, excludedDirs) ==
    filePath \in DOMAIN vault /\ ~UnderPrefix(filePath, excludedDirs)

\* C6: when a pass ends and neither the scan nor a delete of the
\* reconciliation failed, every Document left in the store is at a path of
\* the file list the pass was started with: the live, non-excluded files,
\* when the vault and the settings were not edited during the pass.
C6_DanglingDocumentsDeleted ==
    (run[1].pc = "done" /\ run[1].reconFailures = 0) =>
        \A d \in document :
            /\ \E k \in 1..Len(run[1].files) : run[1].files[k] = d.path
            /\ ~run[1].edited => Live(d.path, settings.excludedDirsList)

\* a pass ended in which the document of a file that left the vault was deleted
C6_Witness ==
    /\ run[1].pc = "done"
    /\ run[1].reconFailures = 0
    /\ Result(1).deleteCount > 0
    /\ \E p \in Paths : p \notin DOMAIN vault /\ run[1].started[p] = 0

\* C7: a pass that follows a pass without failed calls, with no edit of the
\* vault or of the settings in between or during either pass, and in which
\* no call fails, ends with
\* updatedCount = 0 and errorCount = 0.
C7_SecondRunChangesNothing ==
    (/\ run[1].pc = "done" /\ run[1].wasStable
     /\ ~run[1].edited /\ run[1].failedCalls = 0) =>
        /\ Result(1).updatedCount = 0
        /\ Result(1).errorCount = 0

\* such a second pass ended, and it went over documents
C7_Witness ==
    /\ run[1].pc = "done"
    /\ run[1].wasStable
    /\ run[1].failedCalls = 0
    /\ Result(1).successCount = 2

\* C8: during a pass, for a path under an excluded prefix there is no store
\* lookup, no embedding request and no write, the path is not in the file
\* list of the pass, and after a reconciliation without failure no Document
\* is stored at it.
C8_ExcludedNeverTouched ==
    \A p \in Paths :
        (run[1].pc # "idle" /\ UnderPrefix(p, run[1].excludeDirs)) =>
            /\ run[1].started[p] = 0
            /\ run[1].lookups[p] = 0
            /\ run[1].embeds[p] = 0
            /\ run[1].writes[p] = 0
            /\ p \notin Range(run[1].files)
            /\ (run[1].pc = "done" /\ run[1].reconFailures = 0)
                  => ~(\E d \in document : d.path = p)

\* the reconciliation is about to delete the indexed document of a file that
\* is in the vault under an excluded prefix
C8_Witness ==
    /\ run[1].pc = "recon"
    /\ Head(run[1].dangling).path \in DOMAIN vault
    /\ UnderPrefix(Head(run[1].dangling).path, run[1].excludeDirs)
    /\ Head(run[1].dangling).checksum # NullChecksum

\* C9: every public flag sync writes (a new row, a changed flag, the row of an
\* upsert) is true iff the path is under a prefix of the public directories
\* the pass was called with; and after a pass without failed calls the file
\* "P/n" of its file list, with public prefix "P/", has a row with
\* public = true.
C9_PublicFlagFollowsPrefix ==
    /\ [][/\ \A d \in document' :
                ~(\E e \in document : e.id = d.id /\ e.public = d.public)
                => d.public = UnderPrefix(d.path, run[1].publicDirs)
          /\ (run[1].pc = "upsert" /\ failures' = failures /\ run'[1].pc # "upsert")
                => \E d \in document' :
                      /\ d.path = currentFile(run[1])
                      /\ d.public = UnderPrefix(d.path, run[1].publicDirs)]_vars
    /\ [](( /\ run[1].pc = "done"
            /\ run[1].failedCalls = 0
            /\ <<"P", "/", "n">> \in Range(run[1].files)
            /\ <<"P", "/">> \in Range(run[1].publicDirs))
          => \E d \in document : d.path = <<"P", "/", "n">> /\ d.public)

\* a pass ended that stored public = true for "P/n" under the prefix "P/"
C9_Witness ==
    \E d \in document :
        /\ d.path = <<"P", "/", "n">>
        /\ d.public
        /\ run[1].pc = "done"
        /\ run[1].outcome[d.path] \in {"reindex", "visibility"}
        /\ <<"P", "/">> \in Range(run[1].publicDirs)

\* C10: the file list of a pass holds the live non-excluded files of the
\* moment it started; every file of it is taken up exactly once and
\* reaches an outcome, whatever failed for the files before it, and the
\* reconciliation scan is issued before the pass ends.
C10_NoFailFast ==
    /\ \A p \in Paths : run[1].started[p] <= 1
    /\ (run[1].pc # "idle" /\ ~run[1].edited) =>
          \A p \in Paths :
              p \in Range(run[1].files) <=> Live(p, settings.excludedDirsList)
    /\ run[1].pc \in {"scan", "recon", "done"} =>
          \A p \in Paths :
              IF p \in Range(run[1].files)
              THEN run[1].started[p] = 1 /\ run[1].outcome[p] # "none"
              ELSE run[1].started[p] = 0
    /\ run[1].pc \in {"recon", "done"} => run[1].scanned

\* the first file failed, the second one was indexed and the pass ended
C10_Witness ==
    /\ run[1].pc = "done"
    /\ Len(run[1].files) = 2
    /\ run[1].outcome[run[1].files[1]] = "error"
    /\ run[1].outcome[run[1].files[2]] = "reindex"
    /\ run[1].scanned
    /\ Result(1).errorCount = 1

\* the getSuggestionsInternal calls of modal m that started a search
SearchesIn(calls, m) == SelectSeq(calls, LAMBDA call : call.modal = m)

\* C11: a search whose query the moderation provider flags never calls
\* semanticSearch; it ends with the error "Flagged content", and the step
\* in which the flagged response is read sets the result list of its modal
\* to empty.
C11_FlaggedNeverSearched ==
    /\ [](\A c \in 1..Len(searches) :
             (\/ searches[c].moderationRes.flagged
              \/ createModeration(trim(searches[c].query)).flagged) =>
                 /\ ~searches[c].searched
                 /\ searches[c].pc \in {"moderating", "moderationJson", "thrown"}
                 /\ searches[c].error \in {"", "Flagged content", "moderation failed"})
    /\ [][\A c \in 1..Len(searches) :
             (/\ createModeration(trim(searches[c].query)).flagged
              /\ searches[c].pc = "moderationJson"
              /\ searches'[c].pc # "moderationJson"
              /\ failures' = failures)
             => /\ modal'[searches[c].modal].results = <<>>
                /\ searches'[c].moderationRes.flagged
                /\ searches'[c].pc = "thrown"
                /\ searches'[c].error = "Flagged content"]_vars

\* a flagged query emptied a result list that an earlier search of the same
\* modal had filled
C11_Witness ==
    \E c, e \in 1..Len(searches) :
        /\ searches[c].error = "Flagged content"
        /\ searches[e].pc = "done"
        /\ searches[e].modal = searches[c].modal
        /\ modal[searches[c].modal].results = <<>>
        /\ failures = 0

\* C12: a failed scan of the Documents adds one to errorCount, deletes
\* nothing and ends the pass with its result; a failed delete of a dangling
\* Document adds one to errorCount and the loop goes on with the remaining
\* dangling Documents; a pass ends only when none is left to process.
C12_ReconciliationGoesOn ==
    [][\A r \in Runs :
          LET rr == run[r]
              after == run'[r]
              failed == after.reconFailures = rr.reconFailures + 1
          IN  /\ (rr.pc = "scan" /\ failed) =>
                    /\ after.embeddingResult.errorCount = Result(r).errorCount + 1
                    /\ after.embeddingResult.deleteCount = 0
                    /\ after.dangling = <<>>
                    /\ after.pc = "done"
                    /\ document' = document
                    /\ document_section' = document_section
              /\ (rr.pc = "recon" /\ failed) =>
                    /\ after.embeddingResult.errorCount = Result(r).errorCount + 1
                    /\ after.dangling = Tail(rr.dangling)
                    /\ after.pc = IF Tail(rr.dangling) = <<>> THEN "done" ELSE "recon"
              /\ (rr.pc = "recon" /\ after.pc = "done") => Len(rr.dangling) = 1
              /\ rr.pc = "done" =>
                    /\ rr.dangling = <<>>
                    /\ after.pc \in {"done", "idle"}]_vars

\* the delete of the first of two dangling Documents failed and the second
\* one was deleted all the same
C12_Witness ==
    \E r \in Runs :
        /\ run[r].pc = "done"
        /\ run[r].reconFailures = 1
        /\ run[r].failedCalls = 1
        /\ Result(r).deleteCount = 2
        /\ \E d \in document : document = {d} /\ d.id = 1

AllCredentials ==
    creds.supabaseUrl # "" /\ creds.supabaseKey # "" /\ creds.openaiKey # ""

\* C13: whenever no credential handler waits for its save, both clients are
\* non-null exactly when the URL, the key and the OpenAI key are non-empty;
\* and a step that starts generateEmbeddings or opens the search modal is
\* taken only with both clients non-null.
C13_NoRunWithoutCredentials ==
    /\ [](saving = <<>> => (checkCallback <=> AllCredentials))
    /\ [][(\/ \E r \in Runs : run[r].pc = "idle" /\ run'[r].pc # "idle"
           \/ \E m \in Modals : modal[m].state = "none" /\ modal'[m].state # "none")
          => /\ checkCallback
             /\ saving = <<>> => AllCredentials]_vars

\* C14: while the embedding of chunk i is awaited, the embeddings of the
\* chunks before i have returned and their Sections are stored; while the
\* body of its response or the insert of chunk i is awaited, exactly i
\* embeddings were requested. The
\* request for chunk i+1 is issued by the step that completes the insert
\* of chunk i. After a failure at a chunk the document gets no further
\* embedding request and no further write in this pass.
C14_SectionsOneAtATime ==
    /\ [](\A r \in Runs :
             LET rr == run[r] IN
             rr.pc \in {"embed", "json", "insert"} =>
                 /\ rr.i \in 1..Len(rr.sections)
                 /\ rr.embeds[currentFile(rr)]
                        = IF rr.pc = "embed" THEN rr.i - 1 ELSE rr.i
                 /\ Len(SectionRows(document_section, rr.documentId)) = rr.i - 1)
    /\ [][\A r \in Runs :
             LET rr == run[r]
                 after == run'[r]
             IN  /\ (/\ after.pc = "embed" /\ after.i > 1
                      /\ (rr.pc # "embed" \/ rr.i # after.i)) =>
                       /\ rr.pc = "insert"
                       /\ after.i = rr.i + 1
                       /\ Len(document_section') = Len(document_section) + 1
                 /\ \A f \in Paths :
                       (rr.outcome[f] = "error" /\ after.pc # "idle") =>
                           /\ after.embeds[f] = rr.embeds[f]
                           /\ after.writes[f] = rr.writes[f]
                           /\ (after.pc \in {"embed", "json", "insert"}
                                  => currentFile(after) # f)]_vars

\* the first of several chunks failed: one embedding was requested for the
\* document, the pass went on and is over
C14_Witness ==
    \E r \in Runs, f \in Paths :
        /\ run[r].pc = "done"
        /\ run[r].failedAt[f] \in {"embed", "insert"}
        /\ run[r].embeds[f] = 1
        /\ f \in DOMAIN vault
        /\ Len(SectionsOf(vault[f])) >= 2

\* the files of the pass whose outcome is determined
Determined(r) == { f \in Paths : run[r].outcome[f] # "none" }

\* errorCount without the errors of the reconciliation
MainErrors(r) == Result(r).errorCount - run[r].reconFailures

\* C15: at every point of a pass successCount plus the main pass's errors
\* is the number of documents whose outcome is determined, which is the
\* number of files before the current one; after the main pass it is the
\* number of files of the pass, the live non-excluded files when nothing
\* was edited during the pass. A step adds to the two counters only
\* by determining one document's outcome, once per document, and
\* updatedCount never exceeds successCount.
C15_OneCountPerDocument ==
    /\ [](\A r \in Runs :
             LET rr == run[r] IN
             rr.pc # "idle" =>
                 /\ Result(r).successCount + MainErrors(r) = Cardinality(Determined(r))
                 /\ Cardinality(Determined(r)) = rr.k - 1
                 /\ Result(r).updatedCount <= Result(r).successCount
                 /\ Result(r).successCount
                      = Cardinality({f \in Paths : rr.outcome[f] \notin {"none", "error"}})
                 /\ rr.pc \in {"scan", "recon", "done"} =>
                       /\ Cardinality(Determined(r)) = Len(rr.files)
                       /\ ~rr.edited => rr.files = liveFiles(rr.excludeDirs))
    /\ [][\A r \in Runs :
             LET rr == run[r]
                 after == run'[r]
             IN  (rr.pc # "idle" /\ after.pc # "idle") =>
                     /\ \A f \in Paths :
                           rr.outcome[f] # "none" => after.outcome[f] = rr.outcome[f]
                     /\ (after.embeddingResult.successCount # Result(r).successCount
                         \/ after.embeddingResult.updatedCount # Result(r).updatedCount
                         \/ after.embeddingResult.errorCount - after.reconFailures
                               # MainErrors(r))
                        => /\ rr.outcome[currentFile(rr)] = "none"
                           /\ after.outcome[currentFile(rr)] # "none"]_vars

\* a pass over two files ended with one success and one error
C15_Witness ==
    \E r \in Runs :
        /\ run[r].pc = "done"
        /\ Len(run[r].files) = 2
        /\ Result(r).successCount = 1
        /\ MainErrors(r) = 1
        /\ Result(r).updatedCount = 1

\* C16: the store never holds two Document rows with the same path, nor
\* two with the same id.
C16_OneDocumentPerPath ==
    \A d, e \in document : (d.path = e.path \/ d.id = e.id) => d = e

\* the row of a path was upserted a second time, by a re-index in a later
\* pass
C16_Witness ==
    \E r \in Runs, d \in document :
        /\ passes = 2
        /\ run[r].pc = "embed"
        /\ run[r].existingDocument.id = d.id
        /\ run[r].documentId = d.id
        /\ d.path = currentFile(run[r])
        /\ d.checksum = NullChecksum

\* the store after a complete indexing of text `indexed` at the first path
IndexedDocument(indexed) ==
    [id |-> 1, path |-> PathOrder[1], checksum |-> createHash(indexed),
     public |-> FALSE,
     meta |-> [frontmatter |-> parseMarkdown(indexed).frontmatter,
               path |-> PathOrder[1]]]

\* one note was indexed in an earlier session and edited since
InitEdited ==
    /\ InitPlugin(SavedCreds, FALSE)
    /\ chopped = NotChopped
    /\ vault = [p \in {PathOrder[1]} |-> TextB]
    /\ settings = loadSettings(<<>>, <<>>)
    /\ document = { IndexedDocument(TextA) }
    /\ document_section = ExpectedSections(1, PathOrder[1], TextA)
    /\ nextId = 2
    /\ run = [r \in Runs |-> IdleRun]
    /\ passes = 0
    /\ edits = 0
    /\ failures = 0
    /\ stable = FALSE

SpecEdited == InitEdited /\ [][Next]_vars

\* C17: when a pass in which no call failed, and during which nothing was
\* edited, has ended, every live
\* non-excluded file has a Document row with the checksum of its current
\* text whose Sections are exactly the chunks of that text.
C17_CleanPassConverges ==
    \A r \in Runs :
        (run[r].pc = "done" /\ run[r].failedCalls = 0 /\ ~run[r].edited) =>
            \A f \in Paths :
                Live(f, run[r].excludeDirs) =>
                    \E d \in document :
                        /\ d.path = f
                        /\ d.checksum = createHash(vault[f])
                        /\ SectionRows(document_section, d.id)
                              = ExpectedSections(d.id, f, vault[f])

\* the step is one of run r, not an edit made while the run waits
Stepped(r) == [run'[r] EXCEPT !.edited = run[r].edited] # run[r]

\* the row fetched for the current file of run r has a null checksum
FetchedNull(r) ==
    /\ run[r].pc \in {"read", "deleteSections", "upsert", "embed", "json",
                    "insert", "checksum"}
    /\ run[r].existingDocument # NoDoc
    /\ run[r].existingDocument.checksum = NullChecksum

\* C18: a file whose fetched Document row has a null checksum is not
\* skipped: unless a call fails, the diff step sends it to the delete of its
\* Sections, that delete leaves none of them, and its outcome is a complete
\* re-index with the checksum and the Sections of the text the pass read.
C18_NullChecksumReindexed ==
    [][\A r \in Runs :
          LET rr == run[r]
              after == run'[r]
              f == currentFile(rr)
          IN  (FetchedNull(r) /\ failures' = failures /\ Stepped(r)) =>
                 /\ rr.pc = "read" =>
                       /\ after.pc = "deleteSections"
                       /\ after.embeddingResult = rr.embeddingResult
                 /\ rr.pc = "deleteSections" =>
                       /\ after.pc = "upsert"
                       /\ SectionRows(document_section', rr.existingDocument.id) = <<>>
                 /\ after.outcome[f] # "none" =>
                       /\ after.outcome[f] = "reindex"
                       /\ \E d \in document' :
                             /\ d.id = rr.existingDocument.id
                             /\ d.path = f
                             /\ d.checksum = createHash(rr.markdown)
                             /\ SectionRows(document_section', d.id)
                                   = ExpectedSections(d.id, f, rr.markdown)]_vars

\* a document found with a null checksum and part of its Sections is about
\* to get its checksum, all Sections of its text stored anew
C18_Witness ==
    \E r \in Runs :
        /\ FetchedNull(r)
        /\ run[r].pc = "checksum"
        /\ run[r].dropped[currentFile(run[r])] > 0
        /\ Len(SectionRows(document_section, run[r].documentId)) = Len(run[r].sections)
        /\ Len(run[r].sections) >= 2

\* C19: every step of the reconciliation adds to deleteCount the number of
\* Document rows it removed from the store, and a failed delete adds to
\* errorCount only.
C19_DeleteCountIsDeleted ==
    [][\A r \in Runs :
          LET rr == run[r]
              after == run'[r]
          IN  rr.pc = "recon" =>
                 /\ after.embeddingResult.deleteCount - Result(r).deleteCount
                       = Cardinality(document) - Cardinality(document')
                 /\ after.reconFailures > rr.reconFailures =>
                       after.embeddingResult.deleteCount = Result(r).deleteCount]_vars

\* C20: when no run is in the middle of a pass and no call has failed,
\* every Document with a non-null checksum has exactly the Sections of the
\* text with that checksum, each chunk once.
C20_OverlapKeepsSections ==
    (failures = 0 /\ \A r \in Runs : run[r].pc \in {"idle", "done"}) =>
        \A d \in document :
            d.checksum # NullChecksum =>
                \E t \in Texts :
                    /\ createHash(t) = d.checksum
                    /\ SectionRows(document_section, d.id)
                          = ExpectedSections(d.id, d.path, t)

\* what a search leaves in the result list when no call fails
OutcomeOf(search) ==
    IF createModeration(trim(search.query)).flagged
    THEN <<>>
    ELSE semanticSearchResults(search.query)

\* C21: once every search a modal started has completed and no call has
\* failed, the result list of the modal is the one of the search it started
\* last, whose query is the stored searchQuery.
C21_LatestQueryWins ==
    \A m \in Modals :
        LET mine == SearchesIn(searches, m) IN
        (/\ Len(mine) >= 1
         /\ failures = 0
         /\ \A c \in 1..Len(mine) : mine[c].pc \in {"done", "thrown"})
        => /\ modal[m].searchQuery = mine[Len(mine)].query
           /\ modal[m].results = OutcomeOf(mine[Len(mine)])

\* the condition of C22 on a call, against the query started last
MayStart(query, force, last) ==
    /\ trim(query) # trim(last)
    /\ (Len(query) > config.minLengthBeforeAutoSearch \/ force)

\* C22: a step that starts a search of a modal does so for a query whose
\* trimmed text differs from the modal's trimmed searchQuery and that is
\* longer than the minimum or forced; it records the query as searchQuery
\* and leaves the results as they are. A call that starts no search fails
\* that condition and changes neither the searches, the results nor the
\* searchQuery of the modal. Two searches in a row of one modal never have
\* the same trimmed query, whatever the outcome of the first.
C22_SearchStartsOnlyWhenDue ==
    /\ [](\A m \in Modals :
             LET mine == SearchesIn(searches, m) IN
             \A c \in 1..(Len(mine) - 1) :
                 trim(mine[c + 1].query) # trim(mine[c].query))
    /\ [][\A m \in Modals :
             LET mine == SearchesIn(searches, m)
                 after == SearchesIn(searches', m)
             IN
             /\ Len(after) > Len(mine) =>
                   LET new == after[Len(after)] IN
                   /\ Len(after) = Len(mine) + 1
                   /\ MayStart(new.query, new.force, modal[m].searchQuery)
                   /\ new.pc = "moderating" /\ ~new.searched
                   /\ modal'[m].searchQuery = new.query
                   /\ modal'[m].results = modal[m].results
             /\ modal'[m].declined # modal[m].declined =>
                   /\ ~MayStart(modal'[m].declined.query, modal'[m].declined.force,
                                modal[m].searchQuery)
                   /\ after = mine
                   /\ modal'[m].searchQuery = modal[m].searchQuery
                   /\ modal'[m].results = modal[m].results]_vars

\* the only search was flagged, and Alt+Enter on the same query started
\* no second one
C22_Witness ==
    /\ Len(searches) = 1
    /\ searches[1].error = "Flagged content"
    /\ modal[1].declined = [query |-> searches[1].query, force |-> TRUE]
    /\ modal[1].searchQuery = searches[1].query

\* the trailing n characters of a chunk
lastChars(chunk, n) ==
    IF n >= ChunkLen(chunk) THEN chunk ELSE sliceFrom(chunk, ChunkLen(chunk) - n)

\* the overlap size N the config defines; 0 when it defines none
configuredOverlap ==
    IF "charsFromPreviousParagraph" \in DOMAIN config
    THEN config["charsFromPreviousParagraph"] ELSE 0

FrontMatterChanged(r) ==
    LET rr == run[r]
        f == currentFile(rr)
    IN  /\ rr.pc \in {"read", "deleteSections", "upsert", "embed", "json",
                     "insert", "checksum"}
        /\ rr.existingDocument # NoDoc
        /\ rr.pc = "read" => f \in DOMAIN vault
        /\ LET text == IF rr.pc = "read" THEN vault[f] ELSE rr.markdown IN
           \E t \in Texts :
              /\ rr.existingDocument.checksum = createHash(t)
              /\ parseMarkdown(t).content = parseMarkdown(text).content
              /\ parseMarkdown(t).frontmatter # parseMarkdown(text).frontmatter

\* C24: texts that differ only in their front matter have different
\* checksums, and a file whose front matter changed since it was indexed is
\* not skipped: unless a call fails, the diff step sends it to the delete of
\* its Sections, none of them survives, and its outcome is a re-index for
\* which every chunk was embedded anew.
C24_FrontMatterChangeReindexes ==
    /\ [](\A t, u \in Texts : t # u => createHash(t) # createHash(u))
    /\ [][\A r \in Runs :
             LET rr == run[r]
                 after == run'[r]
                 f == currentFile(rr)
             IN  (FrontMatterChanged(r) /\ failures' = failures /\ Stepped(r)) =>
                    /\ rr.pc = "read" =>
                          /\ after.pc = "deleteSections"
                          /\ after.checksum # rr.existingDocument.checksum
                          /\ after.embeddingResult = rr.embeddingResult
                    /\ rr.pc = "deleteSections" =>
                          SectionRows(document_section', rr.existingDocument.id) = <<>>
                    /\ after.outcome[f] # "none" =>
                          /\ after.outcome[f] = "reindex"
                          /\ after.embeds[f] = Len(SectionsOf(rr.markdown))
                          /\ \E d \in document' :
                                /\ d.path = f
                                /\ d.checksum = createHash(rr.markdown)
                                /\ SectionRows(document_section', d.id)
                                      = ExpectedSections(d.id, f, rr.markdown)]_vars

\* a note indexed with one front-matter tag and edited to another is about
\* to get its new checksum: its two old Sections were deleted and both
\* chunks embedded again
C24_Witness ==
    \E r \in Runs :
        /\ FrontMatterChanged(r)
        /\ run[r].pc = "checksum"
        /\ run[r].existingDocument.checksum = createHash(TextA)
        /\ run[r].markdown = TextB
        /\ run[r].dropped[currentFile(run[r])] = 2
        /\ run[r].embeds[currentFile(run[r])] = 2

\* the chats for which modal m has pushed an answer
Answered(m) ==
    { c \in 1..Len(modal[m].chats) : modal[m].chats[c].pc = "answered" }

\* C25: the history of a created modal starts with the system message of
\* the prompt the modal was made with, which is the prompt of the settings
\* at that moment and stays the modal's whatever the settings become;
\* every step leaves the messages already in it where they are;
\* the step in which the modal takes the answer of a returned
\* generativeSearch call appends one assistant message with that answer,
\* once per call, and no other step of the modal changes the history.
C25_HistoryAppendOnly ==
    /\ [](\A m \in Opened :
             /\ Len(modal[m].messageHistory) >= 1
             /\ modal[m].messageHistory[1] = systemMessage(modal[m].prompt))
    /\ [][\A m \in Modals :
          /\ m \in Opened => modal'[m].prompt = modal[m].prompt
          /\ (m \notin Opened /\ modal'[m].state # "none")
                => modal'[m].messageHistory = << systemMessage(settings.prompt) >>]_vars
    /\ [][\A m \in Opened :
          LET before == modal[m]
              after == modal'[m]
          IN
          /\ IsPrefix(before.messageHistory, after.messageHistory)
          /\ Len(after.messageHistory) <= Len(before.messageHistory) + 1
          /\ \A c \in 1..Len(before.chats) :
                /\ c \in Answered(m) => after.chats[c] = before.chats[c]
                /\ (before.chats[c].pc = "returned" /\ after.chats[c].pc = "answered")
                      => after.messageHistory
                            = Append(before.messageHistory,
                                     [role |-> "assistant",
                                      content |-> before.chats[c].res])
          /\ (\A c \in 1..Len(before.chats) :
                 after.chats[c].pc \in {before.chats[c].pc, "thrown"})
                => after.messageHistory = before.messageHistory]_vars

\* two chat messages of one modal were in flight at once and both answers
\* are pushed, the answer of the second message first, while a second modal,
\* made after the prompt of the settings was changed, holds the other prompt
C25_Witness ==
    /\ Len(modal[1].chats) = 2
    /\ Answered(1) = {1, 2}
    /\ Len(modal[1].messageHistory) = 7
    /\ modal[1].messageHistory[2].content = modal[1].chats[2].message
    /\ modal[1].messageHistory[7].content = modal[1].chats[1].res
    /\ modal[1].chats[1].res # modal[1].chats[2].res
    /\ modal[2].state = "chat"
    /\ modal[2].prompt # modal[1].prompt
    /\ modal[2].messageHistory = << systemMessage(modal[2].prompt) >>
    /\ modal[1].messageHistory[1] = systemMessage(prompt)
    /\ settings.prompt = modal[2].prompt

\* C26: of the two keydown listeners of a modal at most one is registered
\* on the document; while the modal is open exactly one is; none is before
\* onOpen or after onClose. As long as no second modal was made, the one
\* registered is the one of the mode the modal shows.
C26_ListenersExclusive ==
    \A m \in Modals :
        /\ modal[m].listeners \subseteq {"triggerChatListener", "chatSendListener"}
        /\ Cardinality(modal[m].listeners) <= 1
        /\ modal[m].state \in {"search", "chat"}
              => Cardinality(modal[m].listeners) = 1
        /\ modal[m].state \in {"none", "closed"} => modal[m].listeners = {}
        /\ Opened = {m}
              => /\ modal[m].state = "search"
                      => /\ modal[m].listeners = {"triggerChatListener"}
                         /\ modal[m].promptShown
                 /\ modal[m].state = "chat"
                      => /\ modal[m].listeners = {"chatSendListener"}
                         /\ ~modal[m].promptShown

\* a modal went through search mode and chat mode, where a message was
\* sent, and was closed: none of its listeners is left on the document,
\* while a modal opened after it is in chat mode
C26_Witness ==
    /\ modal[1].state = "closed"
    /\ modal[1].listeners = {}
    /\ Len(modal[1].chats) >= 1
    /\ modal[1].inputEl = QueryShort
    /\ modal[2].state = "chat"
    /\ modal[2].listeners = {"chatSendListener"}

\* the positions of a pass inside generateEmbeddings
InPass ==
    {"fetch", "read", "access", "deleteSections", "upsert", "embed", "json",
     "insert", "checksum", "scan", "recon"}

\* C27: a pass that was started reaches its return statement, whatever
\* calls fail, provided every awaited call returns; until then it is at one
\* of the awaits of the loops, never at a throw out of generateEmbeddings.
C27_SyncTerminates ==
    /\ [](run[1].pc \in InPass \cup {"idle", "done"})
    /\ (run[1].pc \in InPass) ~> (run[1].pc = "done")

\* a pass returned its result after two of its calls failed, one of them
\* for a note that was not the last of the file list
C27_Witness ==
    /\ run[1].pc = "done"
    /\ run[1].failedCalls >= 2
    /\ Len(run[1].files) >= 2
    /\ run[1].outcome[run[1].files[1]] = "error"
    /\ run[1].embeddingResult.errorCount >= 1

====
